---------------------------- MODULE Spec2Model ----------------------------
(***************************************************************************)
(* State-machine model of the deterministic engine of the agentic          *)
(* pipeline-repair repository: the diagnostic SQL sandbox, the audit log   *)
(* and its database access layer, the health classifier, the schema drift  *)
(* detector, the fix lifecycle, the incident workflow and the scheduler.   *)
(*                                                                         *)
(* Each component has its own specification (SpecSandbox, SpecAudit, ...)  *)
(* over the module's variables; a component's actions leave the other      *)
(* components' variables alone.  The reasoning collaborator (the agent) is *)
(* external: it is modelled as a nondeterministic choice among the tools   *)
(* it was given.                                                           *)
(***************************************************************************)
EXTENDS Integers, Sequences, FiniteSets, TLC

VARIABLES
    \* ---- diagnostic SQL sandbox (src/src/mcp_server/tools.py) ----
    sqlQuery,       \* the sql_query argument of the call, a sequence of characters
    sandboxPc,      \* "called" | "returned"
    sandboxReply,   \* kind of the JSON payload execute_diagnostic_sql returned
    dbHandled,      \* the text this call handed to execute_query, or NoQuery
    dbOutcome,      \* what the database does when handed the query: a DbOutcomes
    dbProduced,     \* the rows the database produces for it
    dbWrote,        \* the statement writes a row inside its transaction
    sandboxData,    \* "data" of the payload: the rows returned
    sandboxCount,   \* "row_count" of the payload, or NoCount when it has none
    sandboxNote,    \* the payload carries the truncation note
    sandboxRaised,  \* an exception left execute_diagnostic_sql
    \* ---- audit log (pipeline_meta.agent_actions, src/src/config/db.py) ----
    agent_actions,  \* the committed rows of the table, oldest first
    action_id_seq,  \* last value of the action_id sequence
    logReply,       \* the payload of the last log_agent_action call
    actionsRead,    \* the action_ids the last GET /actions returned, newest first
    checkReply,     \* what the last POST /check returned: "none" | "result" | "error"
    lastWrite,      \* history: the last write of an audit entry: [op, raised]
    \* ---- run ledger and health classifier (get_pipeline_status) ----
    pipeline_runs,  \* the rows of pipeline_meta.pipeline_runs
    now,            \* the database clock NOW(), in minutes
    statusResult,   \* the rows the last get_pipeline_status returned, in order
    \* ---- schema snapshots and drift (get_schema_info, reset_demo) ----
    live_columns,     \* information_schema.columns: table -> column names
    schema_snapshots, \* pipeline_meta.schema_snapshots: table -> column names
    schemaPc,         \* get_schema_info: "idle" | "have_current"
    schemaArg,        \* its table_name argument, split at the dots
    schemaCurrent,    \* the columns its first query read
    schemaReply,      \* the payload it returned last
    resetPc,          \* reset_demo: "idle" | "dropped" | "deleted"
    generations,      \* history: the complete snapshot generations stored so far
    snapshotFresh,    \* history: no schema change since the last re-snapshot
    readClean,        \* history: the get_schema_info under way began on a fresh
                      \* snapshot and nothing has changed since
    \* ---- fix lifecycle and incident workflow (repair.py, orchestrator.py) ----
    model_sql,      \* dbt model name -> content of its .sql file
    backup,         \* dbt model name -> content of its .sql.backup file, or NoBackup
    preApply,       \* history: the content a model had when its backup was taken
    lastFixOp,      \* the last fix tool call: [op, target, result]
    incidentPc,     \* handle_alert: "Idle" | "Diagnosing" | "Proposing" | "Done"
    alertSeverity,  \* severity of the alert being handled
    approved,       \* an operator approved a fix since this alert came in
    toolCalls,      \* tool calls made by the repair agent in this invocation
    emitted,        \* history: audit entries appended since the current stage began
    \* ---- scheduler (src/src/agents/scheduler.py) ----
    running,        \* self.running
    schedThread,    \* self._thread: a thread id, or 0 for None
    loopPc,         \* thread id -> where that thread is in _loop
    loopI,          \* thread id -> iterations of the sleep loop it has finished
    check_count,    \* self.check_count
    lastPrint,      \* what the last finished health check printed
    tickErrors,     \* history: health check cycles that ended in the except clause
    stopPc,         \* the caller of stop(): "idle" | "joining" | "returned"
    joinTarget,     \* the thread stop() joins, or 0
    joinClock,      \* seconds the join has waited
    \* ---- POST /chat and POST /chat/reset (src/src/api/main.py) ----
    chatAgent,      \* _chat_agent: the number of the agent object, or 0 for None
    agentsMade,     \* agent objects created so far
    chatPc,         \* request -> "idle" | "joining" | "returned"
    worker,         \* request -> its thread t: "none" | "running" | "done"
    workerAgent,    \* request -> the agent object its thread calls, or 0
    workerRaised,   \* history: request -> the agent call of its thread raised
    chatResult,     \* request -> result["response"]
    chatError,      \* request -> error["msg"]
    chatWaited,     \* request -> seconds its t.join has waited so far
    chatAlive,      \* request -> what t.is_alive() answered
    chatResponse,   \* request -> the text of the ChatResponse it returned
    \* ---- dependency graph (pipeline_meta.dependencies) ----
    dependencies,   \* rows <<pipeline_id, depends_on_pipeline_id>>
    depReply,       \* the last add_dependency call: [a, b, result]
    dagResult,      \* what the last get_pipeline_dag returned
    \* ---- quality checks (pipeline_meta.data_quality_checks, quality_results) ----
    data_quality_checks, \* check_id -> the row of the check
    quality_results,     \* the rows, in insertion order
    qualityNow,          \* NOW(), in half hours
    seedPc,              \* the seeding script: "idle" | "deleted"
    qualityReply,        \* what the last get_quality_checks returned
    \* ---- get_run_history ----
    historyReply,        \* what the last get_run_history returned
    \* ---- the scheduler's alert report ----
    expired,             \* rows of agent_actions (the oldest) created more than
                         \* 10 minutes ago
    tickAlerts,          \* history: thread -> monitor alerts its current health
                         \* check has raised
    checksDone           \* history: thread -> health checks it has started

sandboxVars == <<sqlQuery, sandboxPc, sandboxReply, dbHandled, dbOutcome, dbProduced, dbWrote,
                 sandboxData, sandboxCount, sandboxNote, sandboxRaised>>
auditVars   == <<agent_actions, action_id_seq, logReply, actionsRead, checkReply,
                 lastWrite>>
healthVars  == <<pipeline_runs, now, statusResult>>
schemaVars  == <<live_columns, schema_snapshots, schemaPc, schemaArg, schemaCurrent,
                 schemaReply, resetPc, generations, snapshotFresh, readClean>>

fixVars     == <<model_sql, backup, preApply, lastFixOp>>
incidentVars == <<incidentPc, alertSeverity, approved, toolCalls, emitted>>

schedVars   == <<running, schedThread, loopPc, loopI, check_count, lastPrint,
                 tickErrors, stopPc, joinTarget, joinClock>>

chatVars    == <<chatAgent, agentsMade, chatPc, worker, workerAgent, workerRaised,
                 chatResult, chatError, chatWaited, chatAlive, chatResponse>>

dagVars     == <<dependencies, depReply, dagResult>>

qualityVars == <<data_quality_checks, quality_results, qualityNow, seedPc, qualityReply>>

historyVars == <<historyReply>>

alertVars   == <<expired, tickAlerts, checksDone>>

vars == <<sandboxVars, auditVars, healthVars, schemaVars, fixVars, incidentVars,
          schedVars, chatVars, dagVars, qualityVars, historyVars, alertVars>>

(***************************************************************************)
(* The state of a component that a specification does not exercise.        *)
(***************************************************************************)
\* the payload has no "row_count" key
NoCount == 0 - 1

IdleSandbox ==
    /\ sqlQuery = <<>>
    /\ sandboxPc = "returned"
    /\ sandboxReply = "none"
    /\ dbHandled = <<>>
    /\ dbOutcome = "rows"
    /\ dbProduced = <<>>
    /\ dbWrote = FALSE
    /\ sandboxData = <<>>
    /\ sandboxCount = NoCount
    /\ sandboxNote = FALSE
    /\ sandboxRaised = FALSE

IdleAudit ==
    /\ agent_actions = <<>>
    /\ action_id_seq = 0
    /\ logReply = [kind |-> "none"]
    /\ actionsRead = <<>>
    /\ checkReply = "none"
    /\ lastWrite = [op |-> "none", raised |-> FALSE]

IdleHealth ==
    /\ pipeline_runs = {}
    /\ now = 0
    /\ statusResult = <<>>

\* the tables of the database and their columns as first created
RawOrders    == <<"raw", "orders">>
AgentActions == <<"pipeline_meta", "agent_actions">>
Tables       == {RawOrders, AgentActions}

BaseColumns ==
    [t \in Tables |->
        IF t = RawOrders THEN {"order_id", "total_amount"}
        ELSE {"action_id", "agent_name"}]

\* the schemas reset_demo snapshots
SnapshotSchemas == {"raw", "staging", "marts"}

\* the snapshot store right after a re-snapshot of the live tables
FreshSnapshots(live) ==
    [t \in Tables |-> IF t[1] \in SnapshotSchemas THEN live[t] ELSE {}]

IdleSchema ==
    /\ live_columns = BaseColumns
    /\ schema_snapshots = FreshSnapshots(BaseColumns)
    /\ schemaPc = "idle"
    /\ schemaArg = <<>>
    /\ schemaCurrent = {}
    /\ schemaReply = [kind |-> "none"]
    /\ resetPc = "idle"
    /\ generations = {FreshSnapshots(BaseColumns)}
    /\ snapshotFresh = FALSE
    /\ readClean = FALSE

\* the dbt models and the content of their files as checked in
Targets   == {"stg_orders", "mart_revenue_daily"}
CleanSql  == <<"a", "\n">>
NoBackup  == <<"<", "n", "o", " ", "b", "a", "c", "k", "u", "p", ">">>

IdleFix ==
    /\ model_sql = [t \in Targets |-> CleanSql]
    /\ backup = [t \in Targets |-> NoBackup]
    /\ preApply = [t \in Targets |-> NoBackup]
    /\ lastFixOp = [op |-> "none", target |-> "none", result |-> "none"]

IdleIncident ==
    /\ incidentPc = "Idle"
    /\ alertSeverity = "none"
    /\ approved = FALSE
    /\ toolCalls = 0
    /\ emitted = 0

\* threads start() can create
MaxThreads == 2
ThreadIds  == 1..MaxThreads

IdleScheduler ==
    /\ running = FALSE
    /\ schedThread = 0
    /\ loopPc = [t \in ThreadIds |-> "unborn"]
    /\ loopI = [t \in ThreadIds |-> 0]
    /\ check_count = 0
    /\ lastPrint = "none"
    /\ tickErrors = 0
    /\ stopPc = "idle"
    /\ joinTarget = 0
    /\ joinClock = 0

\* POST /chat requests a behaviour may hold
MaxChats == 2
ChatIds  == 1..MaxChats

\* Python's None where a text may stand
None == <<"None">>

IdleChat ==
    /\ chatAgent = 0
    /\ agentsMade = 0
    /\ chatPc = [r \in ChatIds |-> "idle"]
    /\ worker = [r \in ChatIds |-> "none"]
    /\ workerAgent = [r \in ChatIds |-> 0]
    /\ workerRaised = [r \in ChatIds |-> FALSE]
    /\ chatResult = [r \in ChatIds |-> <<>>]
    /\ chatError = [r \in ChatIds |-> None]
    /\ chatWaited = [r \in ChatIds |-> 0]
    /\ chatAlive = [r \in ChatIds |-> FALSE]
    /\ chatResponse = [r \in ChatIds |-> None]

IdleDag ==
    /\ dependencies = {}
    /\ depReply = [a |-> 0, b |-> 0, result |-> "none"]
    /\ dagResult = [target |-> 0, upstream |-> {}, downstream |-> {}]

\* the check inject_data_quality_issue names: orders_amount_not_null on
\* stg_orders, at most 5.0 percent NULLs (threshold values are in halves)
OrdersAmountNotNull ==
    [pipeline_id |-> 2, threshold_type |-> "max_percent", threshold_value |-> 10,
     is_active |-> TRUE]

NoReply == [kind |-> "none"]

IdleQuality ==
    /\ data_quality_checks = <<OrdersAmountNotNull>>
    /\ quality_results = <<>>
    /\ qualityNow = 0
    /\ seedPc = "idle"
    /\ qualityReply = NoReply

IdleHistory == historyReply = NoReply

IdleAlerts ==
    /\ expired = 0
    /\ tickAlerts = [t \in ThreadIds |-> 0]
    /\ checksDone = [t \in ThreadIds |-> 0]

(***************************************************************************)
(* Text.  A Python str is a sequence of one-character strings.             *)
(***************************************************************************)
LowerCase == <<"a", "b", "c", "d", "e", "f", "g", "h", "i", "j", "k", "l", "m",
               "n", "o", "p", "q", "r", "s", "t", "u", "v", "w", "x", "y", "z">>
UpperCase == <<"A", "B", "C", "D", "E", "F", "G", "H", "I", "J", "K", "L", "M",
               "N", "O", "P", "Q", "R", "S", "T", "U", "V", "W", "X", "Y", "Z">>

\* str.upper() on one character
UpperChar(c) ==
    IF \E i \in 1..Len(LowerCase) : LowerCase[i] = c
    THEN UpperCase[CHOOSE i \in 1..Len(LowerCase) : LowerCase[i] = c]
    ELSE c

\* str.upper()
Upper(s) == [i \in 1..Len(s) |-> UpperChar(s[i])]

Whitespace == {" ", "\n", "\t", "\r"}

\* str.strip(): drops the leading and the trailing whitespace
Strip(s) ==
    LET keep == {i \in 1..Len(s) : s[i] \notin Whitespace}
    IN  IF keep = {} THEN <<>>
        ELSE LET lo == CHOOSE i \in keep : \A j \in keep : i <= j
                 hi == CHOOSE i \in keep : \A j \in keep : j <= i
             IN  SubSeq(s, lo, hi)

\* s.startswith(p)
StartsWith(s, p) == Len(p) <= Len(s) /\ SubSeq(s, 1, Len(p)) = p

\* the Python test `w in s` on strings: w occurs in s as a substring
Contains(s, w) ==
    \E i \in 1..(Len(s) - Len(w) + 1) : SubSeq(s, i, i + Len(w) - 1) = w

(***************************************************************************)
(* Database access layer (src/src/config/db.py).                           *)
(* A connection opens a transaction with its first statement; close()      *)
(* without commit() discards what the transaction wrote.                   *)
(***************************************************************************)
\* execute_query on one connection.  `committed` is the table before the call,
\* `pending` the table as the statement leaves it inside the transaction,
\* `rows` what the statement returns, `hasDescription` whether the cursor has
\* a result set (cur.description), `raises` whether cur.execute raised.
\* With a result set the rows are returned before conn.commit() is reached.
execute_query(committed, pending, rows, hasDescription, raises) ==
    IF raises
    THEN [raised |-> TRUE, rows |-> <<>>, table |-> committed]
    ELSE IF hasDescription
    THEN [raised |-> FALSE, rows |-> rows, table |-> committed]
    ELSE [raised |-> FALSE, rows |-> <<>>, table |-> pending]

\* execute_write: commits after the statement, rolls back when it raised
execute_write(committed, pending, raises) ==
    IF raises
    THEN [raised |-> TRUE, table |-> committed]
    ELSE [raised |-> FALSE, table |-> pending]

(***************************************************************************)
(* execute_diagnostic_sql                                                  *)
(***************************************************************************)
KwSelect   == <<"S", "E", "L", "E", "C", "T">>
KwWith     == <<"W", "I", "T", "H">>
KwInsert   == <<"I", "N", "S", "E", "R", "T">>
KwUpdate   == <<"U", "P", "D", "A", "T", "E">>
KwDelete   == <<"D", "E", "L", "E", "T", "E">>
KwDrop     == <<"D", "R", "O", "P">>
KwAlter    == <<"A", "L", "T", "E", "R">>
KwTruncate == <<"T", "R", "U", "N", "C", "A", "T", "E">>
KwCreate   == <<"C", "R", "E", "A", "T", "E">>

\* the list `forbidden`
forbidden == {KwInsert, KwUpdate, KwDelete, KwDrop, KwAlter, KwTruncate, KwCreate}

NoQuery == <<"<", "n", "o", "n", "e", ">">>

\* a plausible slip: the text is trimmed but not upper-cased before the checks
NormalizedNoUpper(q) == Strip(q)

\* normalized = sql_query.strip().upper()
Normalized(q) == Upper(Strip(q))

\* stage 1: the statement begins with a read-only clause keyword
StartsReadOnly(q) ==
    StartsWith(Normalized(q), KwSelect) \/ StartsWith(Normalized(q), KwWith)

\* stage 2: some forbidden word occurs anywhere in the normalized text
ForbiddenHit(q) == \E word \in forbidden : Contains(Normalized(q), word)

\* What the database does with a query it is handed: it answers with rows, or
\* the execution raises (a bad statement, a lost connection).
DbOutcomes == {"rows", "raises"}

\* The whole handler: the payload kind it returns and what it handed to
\* execute_query (the original sql_query, with read_only=True).
ExecuteDiagnosticSqlResult(q, outcome) ==
    IF ~StartsReadOnly(q)
    THEN [reply |-> "error_only_select", handled |-> NoQuery]
    ELSE IF ForbiddenHit(q)
    THEN [reply |-> "error_forbidden", handled |-> NoQuery]
    ELSE IF outcome = "rows"
    THEN [reply |-> "data", handled |-> q]
    ELSE [reply |-> "error_db", handled |-> q]

\* ---- the queries the sandbox is called with ----
MaxFrags == 3

QDropTable  == <<"D", "R", "O", "P", " ", "T", "A", "B", "L", "E", " ",
                 "r", "a", "w", ".", "o", "r", "d", "e", "r", "s">>
QDeleteFrom == <<"D", "E", "L", "E", "T", "E", " ", "F", "R", "O", "M", " ", "x">>
QSelectDrop == <<"S", "E", "L", "E", "C", "T", " ", "1", ";", " ",
                 "D", "R", "O", "P", " ", "T", "A", "B", "L", "E", " ", "x">>
QSelectOk   == <<"S", "E", "L", "E", "C", "T", " ", "*", " ", "F", "R", "O", "M", " ",
                 "r", "a", "w", ".", "o", "r", "d", "e", "r", "s", " ",
                 "L", "I", "M", "I", "T", " ", "5">>

Fragments ==
    { <<" ">>,
      <<"S", "E", "L", "E", "C", "T">>,
      <<"s", "e", "l", "e", "c", "t">>,
      <<"w", "i", "t", "h">>,
      <<"x">>,
      <<"d", "r", "o", "p">>,
      <<"u", "p", "d">>,
      <<"a", "t", "e">>,
      <<"c", "r", "e", "a", "t", "e", "d", "_", "a", "t">>,
      <<"A", "l", "t", "e", "r">>,
      <<"i", "n", "s", "e", "r", "t">>,
      <<"T", "R", "U", "N", "C", "A", "T", "E">> }

RECURSIVE Concat(_)
Concat(fs) == IF fs = <<>> THEN <<>> ELSE Head(fs) \o Concat(Tail(fs))

Queries ==
    {QDropTable, QDeleteFrom, QSelectDrop, QSelectOk}
    \cup UNION { {Concat(fs) : fs \in [1..n -> Fragments]} : n \in 1..MaxFrags }

\* rows a query may produce
MaxRows == 102
\* `if len(results) > 100: results = results[:100]`
RowLimit == 100

\* the result sets the database may answer with: rows 1..n
ResultSets == {[i \in 1..n |-> i] : n \in 0..MaxRows}

\* what the database may do with a query: answer with a result set or raise,
\* having written inside the transaction or not
DbAnswers ==
    {[outcome |-> "rows", produced |-> rs, wrote |-> w] :
        rs \in ResultSets, w \in BOOLEAN}
    \cup {[outcome |-> "raises", produced |-> <<>>, wrote |-> w] : w \in BOOLEAN}

\* the answers that differ for the gate: one row, or an error
GateAnswers == {a \in DbAnswers : ~a.wrote /\ Len(a.produced) <= 1}

\* the sample queries of the design
SampleQueries == {QDropTable, QDeleteFrom, QSelectDrop, QSelectOk}

\* a plausible slip: a result of exactly RowLimit rows already counts as too long
DiagnosticPayloadAtLimit(results) ==
    IF Len(results) >= RowLimit
    THEN [data |-> SubSeq(results, 1, RowLimit), note |-> TRUE, row_count |-> NoCount]
    ELSE [data |-> results, note |-> FALSE, row_count |-> Len(results)]

\* the two success payloads: truncated with a note, or whole with a row_count
DiagnosticPayload(results) ==
    IF Len(results) > RowLimit
    THEN [data |-> SubSeq(results, 1, RowLimit), note |-> TRUE, row_count |-> NoCount]
    ELSE [data |-> results, note |-> FALSE, row_count |-> Len(results)]

\* a plausible slip: no try around execute_query, its exception leaves the tool
TryExecuteNoExcept(r) ==
    IF r.raised
    THEN [raised |-> TRUE, data |-> <<>>, note |-> FALSE, row_count |-> NoCount]
    ELSE [raised |-> FALSE] @@ DiagnosticPayload(r.rows)

\* try: the payload of the rows; except Exception: the error payload
TryExecute(r) ==
    IF r.raised
    THEN [raised |-> FALSE, data |-> <<>>, note |-> FALSE, row_count |-> NoCount]
    ELSE [raised |-> FALSE] @@ DiagnosticPayload(r.rows)

\* a row that a statement may have written inside its transaction
ScratchRow == [action_id |-> 0, agent_name |-> "scratch", action_type |-> "scratch"]

InitSandbox ==
    /\ sqlQuery \in Queries
    /\ sandboxPc = "called"
    /\ sandboxReply = "none"
    /\ dbHandled = NoQuery
    /\ \E a \in GateAnswers :
          dbOutcome = a.outcome /\ dbProduced = a.produced /\ dbWrote = a.wrote
    /\ sandboxData = <<>>
    /\ sandboxCount = NoCount
    /\ sandboxNote = FALSE
    /\ sandboxRaised = FALSE
    /\ IdleAudit /\ IdleHealth /\ IdleSchema /\ IdleFix /\ IdleIncident
    /\ IdleScheduler /\ IdleChat /\ IdleDag /\ IdleQuality /\ IdleHistory /\ IdleAlerts

\* the sample queries against every answer of the database
InitSandboxRows ==
    /\ sqlQuery \in SampleQueries
    /\ sandboxPc = "called"
    /\ sandboxReply = "none"
    /\ dbHandled = NoQuery
    /\ \E a \in DbAnswers :
          dbOutcome = a.outcome /\ dbProduced = a.produced /\ dbWrote = a.wrote
    /\ sandboxData = <<>>
    /\ sandboxCount = NoCount
    /\ sandboxNote = FALSE
    /\ sandboxRaised = FALSE
    /\ IdleAudit /\ IdleHealth /\ IdleSchema /\ IdleFix /\ IdleIncident
    /\ IdleScheduler /\ IdleChat /\ IdleDag /\ IdleQuality /\ IdleHistory /\ IdleAlerts

\* The whole handler.  A rejected query ends at the gate; an accepted one is
\* handed to execute_query, where the database answers or raises.
ExecuteDiagnosticSql ==
    /\ sandboxPc = "called"
    /\ LET r == ExecuteDiagnosticSqlResult(sqlQuery, dbOutcome)
           pending == IF dbWrote THEN Append(agent_actions, ScratchRow)
                      ELSE agent_actions
           q == execute_query(agent_actions, pending, dbProduced, TRUE,
                              dbOutcome = "raises")
           t == TryExecute(q)
       IN  /\ sandboxReply' = r.reply
           /\ dbHandled' = r.handled
           /\ IF r.handled = NoQuery
              THEN UNCHANGED <<agent_actions, sandboxData, sandboxCount, sandboxNote,
                               sandboxRaised>>
              ELSE /\ agent_actions' = q.table
                   /\ sandboxData' = t.data
                   /\ sandboxCount' = t.row_count
                   /\ sandboxNote' = t.note
                   /\ sandboxRaised' = t.raised
    /\ sandboxPc' = "returned"
    /\ UNCHANGED <<sqlQuery, dbOutcome, dbProduced, dbWrote>>
    /\ UNCHANGED <<action_id_seq, logReply, actionsRead, checkReply, lastWrite>>
    /\ UNCHANGED <<healthVars, schemaVars, fixVars, incidentVars, schedVars, chatVars, dagVars, qualityVars, historyVars, alertVars>>

NextSandbox == ExecuteDiagnosticSql

SpecSandbox == InitSandbox /\ [][NextSandbox]_vars

SpecSandboxRows == InitSandboxRows /\ [][NextSandbox]_vars

(***************************************************************************)
(* C1: execute_diagnostic_sql hands a query to the database only if, after *)
(* strip() and upper(), the text starts with SELECT or WITH and contains   *)
(* none of the seven mutation keywords as a substring; every other query   *)
(* gets an error payload and nothing is executed.  The three mutating      *)
(* sample queries are rejected and the sample SELECT is executed.          *)
(***************************************************************************)
C1_SandboxGate ==
    sandboxPc = "returned" =>
        LET n == Upper(Strip(sqlQuery))
            allowed ==
                /\ StartsWith(n, KwSelect) \/ StartsWith(n, KwWith)
                /\ \A w \in {KwInsert, KwUpdate, KwDelete, KwDrop,
                             KwAlter, KwTruncate, KwCreate} : ~Contains(n, w)
        IN  /\ (dbHandled # NoQuery) <=> allowed
            /\ allowed => dbHandled = sqlQuery /\ sandboxReply \in {"data", "error_db"}
            /\ ~allowed => sandboxReply \in {"error_only_select", "error_forbidden"}
            /\ sqlQuery \in {QDropTable, QDeleteFrom, QSelectDrop} => dbHandled = NoQuery
            /\ sqlQuery = QSelectOk => dbHandled = QSelectOk

\* a statement that starts with SELECT and carries DROP further on was rejected
C1_Witness ==
    /\ sandboxPc = "returned"
    /\ sqlQuery = QSelectDrop
    /\ sandboxReply = "error_forbidden"
    /\ dbHandled = NoQuery

(***************************************************************************)
(* C13: an accepted query returns at most RowLimit rows, and the payload   *)
(* carries the truncation note exactly when the query produced more than   *)
(* RowLimit rows; a result of exactly RowLimit rows is returned whole.     *)
(***************************************************************************)
C13_AtMostHundredRows ==
    (sandboxPc = "returned" /\ sandboxReply = "data") =>
        /\ Len(sandboxData) <= 100
        /\ sandboxNote <=> Len(dbProduced) > 100
        /\ Len(dbProduced) <= 100 => sandboxData = dbProduced
        /\ \A i \in 1..Len(sandboxData) : sandboxData[i] = dbProduced[i]

\* a result of exactly one hundred rows came back whole and without the note
C13_Witness ==
    /\ sandboxPc = "returned"
    /\ sandboxReply = "data"
    /\ Len(dbProduced) = 100
    /\ sandboxData = dbProduced
    /\ ~sandboxNote

(***************************************************************************)
(* C14: an error raised while an accepted query executes is returned as an *)
(* error payload; no exception leaves execute_diagnostic_sql, and the      *)
(* stored state is what it was before the call.                            *)
(***************************************************************************)
C14_ExecutionErrorIsPayload ==
    sandboxPc = "returned" =>
        /\ ~sandboxRaised
        /\ (dbHandled # NoQuery /\ dbOutcome = "raises") =>
              sandboxReply = "error_db" /\ sandboxData = <<>>
        /\ agent_actions = <<>>

\* an accepted query was handed to the database and its execution raised
C14_Witness ==
    /\ sandboxPc = "returned"
    /\ dbHandled = QSelectOk
    /\ dbOutcome = "raises"
    /\ dbWrote
    /\ sandboxReply = "error_db"

(***************************************************************************)
(* The audit log.                                                          *)
(***************************************************************************)
MaxActions == 4

\* (agent_name, action_type) pairs the agents are told to log with
AgentEntries ==
    { <<"monitor", "alert">>, <<"diagnostics", "diagnosis">>,
      <<"repair", "fix_proposed">> }

ActionRow(id, agent, type) ==
    [action_id |-> id, agent_name |-> agent, action_type |-> type]

InitAudit ==
    /\ IdleAudit /\ IdleSandbox /\ IdleHealth /\ IdleSchema /\ IdleFix /\ IdleIncident
    /\ IdleScheduler /\ IdleChat /\ IdleDag /\ IdleQuality /\ IdleHistory /\ IdleAlerts

\* log_agent_action: INSERT ... RETURNING action_id, created_at through
\* execute_query(read_only=False); any exception becomes {"error": ...}
log_agent_action(agent, type, raises) ==
    LET id  == action_id_seq + 1
        row == ActionRow(id, agent, type)
        r   == execute_query(agent_actions, Append(agent_actions, row),
                             <<row>>, TRUE, raises)
    IN  /\ agent_actions' = r.table
        /\ action_id_seq' = IF raises THEN action_id_seq ELSE id
        /\ logReply' = IF r.raised
                       THEN [kind |-> "error"]
                       ELSE IF r.rows # <<>>
                       THEN [kind |-> "logged", action_id |-> r.rows[1].action_id]
                       ELSE [kind |-> "logged_empty"]
        /\ lastWrite' = [op |-> "log", raised |-> raises]
        /\ UNCHANGED <<actionsRead, checkReply>>

\* POST /check: after run_health_check, the health_check entry is written with
\* execute_write; whatever the write raises is swallowed (except: pass)
trigger_health_check(raises) ==
    LET id  == action_id_seq + 1
        row == ActionRow(id, "monitor", "health_check")
        w   == execute_write(agent_actions, Append(agent_actions, row), raises)
    IN  /\ agent_actions' = w.table
        /\ action_id_seq' = IF raises THEN action_id_seq ELSE id
        /\ checkReply' = "result"
        /\ lastWrite' = [op |-> "check", raised |-> raises]
        /\ UNCHANGED <<logReply, actionsRead>>

RECURSIVE Reverse(_)
Reverse(s) == IF s = <<>> THEN <<>> ELSE Append(Reverse(Tail(s)), Head(s))

FirstN(s, n) == SubSeq(s, 1, IF n < Len(s) THEN n ELSE Len(s))

\* GET /actions?limit=: ORDER BY created_at DESC LIMIT %s (rows are kept in
\* creation order, so newest first is the reverse)
get_recent_actions(limit) ==
    LET r == execute_query(agent_actions, agent_actions,
                           FirstN(Reverse(agent_actions), limit), TRUE, FALSE)
    IN  /\ actionsRead' = [i \in 1..Len(r.rows) |-> r.rows[i].action_id]
        /\ agent_actions' = r.table
        /\ UNCHANGED <<action_id_seq, logReply, checkReply, lastWrite>>

\* maintenance tooling: DELETE FROM pipeline_meta.agent_actions
clear_agent_actions ==
    /\ agent_actions # <<>>
    /\ agent_actions' = execute_write(agent_actions, <<>>, FALSE).table
    /\ UNCHANGED <<action_id_seq, logReply, actionsRead, checkReply, lastWrite>>

LogAgentAction ==
    /\ action_id_seq < MaxActions
    /\ \E e \in AgentEntries, raises \in BOOLEAN :
          log_agent_action(e[1], e[2], raises)
    /\ UNCHANGED <<sandboxVars, healthVars, schemaVars, fixVars, incidentVars, schedVars, chatVars, dagVars, qualityVars, historyVars, alertVars>>

TriggerHealthCheck ==
    /\ action_id_seq < MaxActions
    /\ \E raises \in BOOLEAN : trigger_health_check(raises)
    /\ UNCHANGED <<sandboxVars, healthVars, schemaVars, fixVars, incidentVars, schedVars, chatVars, dagVars, qualityVars, historyVars, alertVars>>

GetRecentActions ==
    /\ \E limit \in 1..MaxActions : get_recent_actions(limit)
    /\ UNCHANGED <<sandboxVars, healthVars, schemaVars, fixVars, incidentVars, schedVars, chatVars, dagVars, qualityVars, historyVars, alertVars>>

ClearAgentActions ==
    /\ clear_agent_actions
    /\ UNCHANGED <<sandboxVars, healthVars, schemaVars, fixVars, incidentVars, schedVars, chatVars, dagVars, qualityVars, historyVars, alertVars>>

NextAudit ==
    LogAgentAction \/ TriggerHealthCheck \/ GetRecentActions \/ ClearAgentActions

SpecAudit == InitAudit /\ [][NextAudit]_vars

(***************************************************************************)
(* C3: when log_agent_action returns {logged: true} with an action_id,     *)
(* exactly one new entry with that identifier has been persisted: the      *)
(* table holds one row more than before the call, and that row carries the *)
(* returned identifier (so every later reader sees it).                    *)
(***************************************************************************)
C3_RecordPersists ==
    [][ (logReply' # logReply /\ logReply'.kind = "logged") =>
            /\ Len(agent_actions') = Len(agent_actions) + 1
            /\ agent_actions'[Len(agent_actions')].action_id = logReply'.action_id
      ]_vars

(***************************************************************************)
(* C15: record never fails silently: when the write of an audit entry      *)
(* raised, the caller is told so, by log_agent_action and by POST /check   *)
(* alike.                                                                  *)
(***************************************************************************)
C15_WriteFailureReachesCaller ==
    lastWrite.raised =>
        /\ lastWrite.op = "log" => logReply.kind = "error"
        /\ lastWrite.op = "check" => checkReply = "error"

(***************************************************************************)
(* Run ledger and health classifier: the query of get_pipeline_status.     *)
(***************************************************************************)
\* SQL NULL of a numeric column (it is no number of the columns' range)
NULL == 0 - 1

\* variant: a NULL left side compares as greater
SqlGreaterNullIsLarge(a, b) == a = NULL \/ (b # NULL /\ a > b)

\* a > b in a CASE WHEN: true only when neither side is NULL
SqlGreater(a, b) == a # NULL /\ b # NULL /\ a > b

\* pipeline_meta.pipelines: the rows, by pipeline_id; names are unique and
\* listed here in ascending name order
pipeline_name == <<"mart_customer_orders", "stg_orders">>
sla_minutes   == <<2, 1>>
Pipelines     == 1..Len(pipeline_name)

RunStatuses == {"running", "success", "failed"}
Durations   == {NULL, 60, 121}

MaxRuns == 2
MaxTime == 3

\* the row LEFT JOIN LATERAL yields when the pipeline has no run: all NULL
NoRun == [pipeline_id |-> NULL, status |-> "NULL", started_at |-> NULL,
          duration_seconds |-> NULL]

\* variant: the run with the least started_at
LatestRunOldest(p) ==
    LET mine == {r \in pipeline_runs : r.pipeline_id = p}
    IN  IF mine = {} THEN NoRun
        ELSE CHOOSE r \in mine : \A o \in mine : r.started_at <= o.started_at

\* ORDER BY pr.started_at DESC LIMIT 1 (started_at is unique per pipeline)
LatestRun(p) ==
    LET mine == {r \in pipeline_runs : r.pipeline_id = p}
    IN  IF mine = {} THEN NoRun
        ELSE CHOOSE r \in mine : \A o \in mine : o.started_at <= r.started_at

\* CASE ... END AS health_status
HealthStatus(lr, sla) ==
    IF SqlGreater(lr.duration_seconds, sla * 60) THEN "SLA_BREACHED"
    ELSE IF lr.status = "failed" THEN "FAILED"
    ELSE IF lr.status = "running" THEN "RUNNING"
    ELSE "HEALTHY"

\* the CASE of ORDER BY
OrderRank(lr, sla) ==
    IF lr.status = "failed" THEN 0
    ELSE IF SqlGreater(lr.duration_seconds, sla * 60) THEN 1
    ELSE 2

StatusRow(p) ==
    LET lr == LatestRun(p)
    IN  [pipeline_id |-> p,
         pipeline_name |-> pipeline_name[p],
         sla_minutes |-> sla_minutes[p],
         last_run_status |-> lr.status,
         last_run_started |-> lr.started_at,
         last_run_duration_sec |-> lr.duration_seconds,
         health_status |-> HealthStatus(lr, sla_minutes[p])]

\* ORDER BY CASE ..., p.pipeline_name
RowBefore(p, q) ==
    LET rp == OrderRank(LatestRun(p), sla_minutes[p])
        rq == OrderRank(LatestRun(q), sla_minutes[q])
    IN  rp < rq \/ (rp = rq /\ p <= q)

\* the whole result of get_pipeline_status
get_pipeline_status ==
    LET order == CHOOSE s \in [1..Cardinality(Pipelines) -> Pipelines] :
                    /\ \A i, j \in DOMAIN s : i # j => s[i] # s[j]
                    /\ \A i, j \in DOMAIN s : i < j => RowBefore(s[i], s[j])
    IN  [i \in DOMAIN order |-> StatusRow(order[i])]

InitHealth ==
    /\ IdleHealth /\ IdleSandbox /\ IdleAudit /\ IdleSchema /\ IdleFix /\ IdleIncident
    /\ IdleScheduler /\ IdleChat /\ IdleDag /\ IdleQuality /\ IdleHistory /\ IdleAlerts

\* INSERT INTO pipeline_meta.pipeline_runs (as the run recorder and the
\* failure injector do), started now or in the past
InsertRun ==
    /\ Cardinality(pipeline_runs) < MaxRuns
    /\ \E p \in Pipelines, st \in RunStatuses, d \in Durations, t \in 0..now :
          /\ \A r \in pipeline_runs : ~(r.pipeline_id = p /\ r.started_at = t)
          /\ pipeline_runs' = pipeline_runs \cup
                {[pipeline_id |-> p, status |-> st, started_at |-> t,
                  duration_seconds |-> d]}
    /\ statusResult' = <<>>
    /\ UNCHANGED now
    /\ UNCHANGED <<sandboxVars, auditVars, schemaVars, fixVars, incidentVars, schedVars, chatVars, dagVars, qualityVars, historyVars, alertVars>>

\* DELETE FROM pipeline_meta.pipeline_runs WHERE status IN ('failed', 'running')
DeleteFailedRuns ==
    /\ \E r \in pipeline_runs : r.status \in {"failed", "running"}
    /\ pipeline_runs' = {r \in pipeline_runs : r.status \notin {"failed", "running"}}
    /\ statusResult' = <<>>
    /\ UNCHANGED now
    /\ UNCHANGED <<sandboxVars, auditVars, schemaVars, fixVars, incidentVars, schedVars, chatVars, dagVars, qualityVars, historyVars, alertVars>>

\* a minute passes
ClockTick ==
    /\ now < MaxTime
    /\ now' = now + 1
    /\ statusResult' = <<>>
    /\ UNCHANGED pipeline_runs
    /\ UNCHANGED <<sandboxVars, auditVars, schemaVars, fixVars, incidentVars, schedVars, chatVars, dagVars, qualityVars, historyVars, alertVars>>

GetPipelineStatus ==
    /\ statusResult = <<>>
    /\ statusResult' = get_pipeline_status
    /\ UNCHANGED <<pipeline_runs, now>>
    /\ UNCHANGED <<sandboxVars, auditVars, schemaVars, fixVars, incidentVars, schedVars, chatVars, dagVars, qualityVars, historyVars, alertVars>>

NextHealth == InsertRun \/ DeleteFailedRuns \/ ClockTick \/ GetPipelineStatus

SpecHealth == InitHealth /\ [][NextHealth]_vars

\* the rows of the last result
ResultRows == {statusResult[i] : i \in DOMAIN statusResult}

(***************************************************************************)
(* C4: a pipeline whose latest run has status 'failed' is reported FAILED, *)
(* whatever the run's duration and the pipeline's SLA are.                 *)
(***************************************************************************)
C4_FailedIsFailed ==
    \A row \in ResultRows :
        row.last_run_status = "failed" => row.health_status = "FAILED"

(***************************************************************************)
(* C5: a pipeline whose latest run is 'running' is classified by the time  *)
(* elapsed since started_at: SLA_BREACHED when it started SLA+1 minutes    *)
(* ago, RUNNING when it started SLA-1 minutes ago, whatever the stored     *)
(* duration_seconds is.                                                    *)
(***************************************************************************)
C5_RunningByElapsed ==
    \A row \in ResultRows :
        row.last_run_status = "running" =>
            /\ now - row.last_run_started = row.sla_minutes + 1
                  => row.health_status = "SLA_BREACHED"
            /\ now - row.last_run_started = row.sla_minutes - 1
                  => row.health_status = "RUNNING"

(***************************************************************************)
(* C20: an active pipeline with no run in the ledger is in the result of   *)
(* get_pipeline_status and is classified HEALTHY.                          *)
(***************************************************************************)
C20_NoRunIsHealthy ==
    statusResult # <<>> =>
        \A p \in Pipelines :
            (\A r \in pipeline_runs : r.pipeline_id # p) =>
                /\ \E row \in ResultRows : row.pipeline_id = p
                /\ \A row \in ResultRows :
                      row.pipeline_id = p => row.health_status = "HEALTHY"

\* a result in which one pipeline has no run and another has a failed one
C20_Witness ==
    /\ statusResult # <<>>
    /\ \E p, q \in Pipelines :
          /\ \A r \in pipeline_runs : r.pipeline_id # p
          /\ \E r \in pipeline_runs : r.pipeline_id = q /\ r.status = "failed"
          /\ \E row \in ResultRows :
                /\ row.pipeline_id = p
                /\ row.last_run_status = "NULL"
                /\ row.health_status = "HEALTHY"

\* the runs of pipeline p with the greatest started_at
NewestRuns(p) ==
    {r \in pipeline_runs :
        /\ r.pipeline_id = p
        /\ \A o \in pipeline_runs : o.pipeline_id = p => o.started_at <= r.started_at}

(***************************************************************************)
(* C21: a pipeline whose run with the greatest started_at has status       *)
(* 'success' is reported SLA_BREACHED exactly when that run's duration is  *)
(* strictly greater than the SLA, and HEALTHY otherwise (a duration equal  *)
(* to the SLA is HEALTHY); older runs do not change the result.            *)
(***************************************************************************)
C21_SuccessBreachIsStrict ==
    statusResult # <<>> =>
        \A p \in Pipelines : \A r \in NewestRuns(p) :
            r.status = "success" =>
                \A row \in ResultRows :
                    row.pipeline_id = p =>
                        row.health_status =
                            IF r.duration_seconds # NULL
                                  /\ r.duration_seconds > sla_minutes[p] * 60
                            THEN "SLA_BREACHED" ELSE "HEALTHY"

\* a successful latest run lasting exactly the SLA, after an older failed run
\* that lasted longer than the SLA: the row is HEALTHY
C21_Witness ==
    /\ statusResult # <<>>
    /\ \E p \in Pipelines : \E r \in NewestRuns(p) :
          /\ r.status = "success"
          /\ r.duration_seconds = sla_minutes[p] * 60
          /\ \E o \in pipeline_runs :
                /\ o.pipeline_id = p
                /\ o.started_at < r.started_at
                /\ o.status = "failed"
                /\ o.duration_seconds > sla_minutes[p] * 60
          /\ \E row \in ResultRows :
                row.pipeline_id = p /\ row.health_status = "HEALTHY"

(***************************************************************************)
(* C22: the rows of get_pipeline_status are ordered by reported health     *)
(* status FAILED < SLA_BREACHED < RUNNING < HEALTHY and then by pipeline   *)
(* name ascending (pipeline ids are in name order).                        *)
(***************************************************************************)
C22_OrderedByStatusThenName ==
    LET StatusRank(h) == CASE h = "FAILED" -> 0
                           [] h = "SLA_BREACHED" -> 1
                           [] h = "RUNNING" -> 2
                           [] OTHER -> 3
    IN  \A i, j \in DOMAIN statusResult :
            i < j =>
                LET ri == StatusRank(statusResult[i].health_status)
                    rj == StatusRank(statusResult[j].health_status)
                IN  \/ ri < rj
                    \/ /\ ri = rj
                       /\ statusResult[i].pipeline_id < statusResult[j].pipeline_id

(***************************************************************************)
(* Schema snapshots and drift: get_schema_info reads the live columns and  *)
(* the snapshot in two queries on two connections; reset_demo re-snapshots *)
(* with a DELETE and an INSERT in two transactions.                        *)
(***************************************************************************)
\* table names get_schema_info is called with: the tables, a table of a
\* monitored schema that does not exist, and a name without a schema
TableArgs == Tables \cup {<<"raw", "missing">>, <<"orders">>}

ColumnsOf(store, t) == IF t \in DOMAIN store THEN store[t] ELSE {}

\* variant: columns_added not reduced by the snapshot's columns
DriftResultAddedIsCurrent(t, current, snapshot) ==
    LET added   == current
        removed == snapshot \ current
    IN  [kind |-> "info",
         table |-> t,
         current_columns |-> current,
         snapshot_columns |-> snapshot,
         drift_detected |-> (added # {} \/ removed # {}),
         columns_added |-> added,
         columns_removed |-> removed]

\* the drift computation on the two column sets
DriftResult(t, current, snapshot) ==
    LET added   == current \ snapshot
        removed == snapshot \ current
    IN  [kind |-> "info",
         table |-> t,
         current_columns |-> current,
         snapshot_columns |-> snapshot,
         drift_detected |-> (added # {} \/ removed # {}),
         columns_added |-> added,
         columns_removed |-> removed]

InitSchema ==
    /\ IdleSchema /\ IdleSandbox /\ IdleAudit /\ IdleHealth /\ IdleFix /\ IdleIncident
    /\ IdleScheduler /\ IdleChat /\ IdleDag /\ IdleQuality /\ IdleHistory /\ IdleAlerts

\* get_schema_info up to its first query: the name check, then the live
\* columns from information_schema.columns
GetSchemaInfoCurrent ==
    /\ schemaPc = "idle"
    /\ \E t \in TableArgs :
          /\ schemaArg' = t
          /\ IF Len(t) # 2
             THEN /\ schemaReply' = [kind |-> "error"]
                  /\ schemaPc' = "idle"
                  /\ schemaCurrent' = {}
             ELSE /\ schemaCurrent' = ColumnsOf(live_columns, t)
                  /\ schemaPc' = "have_current"
                  /\ UNCHANGED schemaReply
    /\ readClean' = snapshotFresh
    /\ UNCHANGED <<live_columns, schema_snapshots, resetPc, generations, snapshotFresh>>
    /\ UNCHANGED <<sandboxVars, auditVars, healthVars, fixVars, incidentVars, schedVars, chatVars, dagVars, qualityVars, historyVars, alertVars>>

\* its second query (the snapshot rows of the table) and the drift result
GetSchemaInfoSnapshot ==
    /\ schemaPc = "have_current"
    /\ schemaReply' = DriftResult(schemaArg, schemaCurrent,
                                  ColumnsOf(schema_snapshots, schemaArg))
    /\ schemaPc' = "idle"
    /\ UNCHANGED <<live_columns, schema_snapshots, schemaArg, schemaCurrent, resetPc>>
    /\ UNCHANGED <<generations, snapshotFresh, readClean>>
    /\ UNCHANGED <<sandboxVars, auditVars, healthVars, fixVars, incidentVars, schedVars, chatVars, dagVars, qualityVars, historyVars, alertVars>>

\* inject_schema_drift: ALTER TABLE raw.orders ADD COLUMN IF NOT EXISTS
InjectSchemaDrift ==
    /\ resetPc = "idle"
    /\ live_columns' = [live_columns EXCEPT ![RawOrders] = @ \cup {"discount_amount"}]
    /\ snapshotFresh' = FALSE
    /\ readClean' = FALSE
    /\ UNCHANGED <<schema_snapshots, schemaPc, schemaArg, schemaCurrent,
                   schemaReply, resetPc, generations>>
    /\ UNCHANGED <<sandboxVars, auditVars, healthVars, fixVars, incidentVars, schedVars, chatVars, dagVars, qualityVars, historyVars, alertVars>>

\* reset_demo: ALTER TABLE raw.orders DROP COLUMN IF EXISTS discount_amount
ResetDropColumn ==
    /\ resetPc = "idle"
    /\ live_columns' = [live_columns EXCEPT ![RawOrders] = @ \ {"discount_amount"}]
    /\ resetPc' = "dropped"
    /\ snapshotFresh' = FALSE
    /\ readClean' = FALSE
    /\ UNCHANGED <<schema_snapshots, schemaPc, schemaArg, schemaCurrent, schemaReply,
                   generations>>
    /\ UNCHANGED <<sandboxVars, auditVars, healthVars, fixVars, incidentVars, schedVars, chatVars, dagVars, qualityVars, historyVars, alertVars>>

\* reset_demo: DELETE FROM pipeline_meta.schema_snapshots (committed)
ResetDeleteSnapshots ==
    /\ resetPc = "dropped"
    /\ schema_snapshots' = [t \in Tables |-> {}]
    /\ resetPc' = "deleted"
    /\ snapshotFresh' = FALSE
    /\ readClean' = FALSE
    /\ UNCHANGED <<live_columns, schemaPc, schemaArg, schemaCurrent, schemaReply,
                   generations>>
    /\ UNCHANGED <<sandboxVars, auditVars, healthVars, fixVars, incidentVars, schedVars, chatVars, dagVars, qualityVars, historyVars, alertVars>>

\* reset_demo: INSERT INTO pipeline_meta.schema_snapshots SELECT ... FROM
\* information_schema.columns WHERE table_schema IN ('raw', 'staging', 'marts')
ResetInsertSnapshots ==
    /\ resetPc = "deleted"
    /\ schema_snapshots' = FreshSnapshots(live_columns)
    /\ resetPc' = "idle"
    /\ generations' = generations \cup {schema_snapshots'}
    /\ snapshotFresh' = TRUE
    /\ readClean' = FALSE
    /\ UNCHANGED <<live_columns, schemaPc, schemaArg, schemaCurrent, schemaReply>>
    /\ UNCHANGED <<sandboxVars, auditVars, healthVars, fixVars, incidentVars, schedVars, chatVars, dagVars, qualityVars, historyVars, alertVars>>

NextSchema ==
    \/ GetSchemaInfoCurrent
    \/ GetSchemaInfoSnapshot
    \/ InjectSchemaDrift
    \/ ResetDropColumn
    \/ ResetDeleteSnapshots
    \/ ResetInsertSnapshots

SpecSchema == InitSchema /\ [][NextSchema]_vars

(***************************************************************************)
(* C6: when no snapshot exists for a table, get_schema_info reports        *)
(* drift_detected = false with columns_added and columns_removed empty,    *)
(* whatever columns the live table has.                                    *)
(***************************************************************************)
C6_NoBaselineNoDrift ==
    (schemaReply.kind = "info" /\ schemaReply.snapshot_columns = {}) =>
        /\ schemaReply.drift_detected = FALSE
        /\ schemaReply.columns_added = {}
        /\ schemaReply.columns_removed = {}

(***************************************************************************)
(* C18: a re-snapshot replaces the stored generation atomically: the       *)
(* snapshot columns a get_schema_info observes for a table are those of    *)
(* one complete generation, the old or the new one, never an empty or      *)
(* partial snapshot in between.                                            *)
(***************************************************************************)
C18_SnapshotSwapIsAtomic ==
    (schemaReply.kind = "info" /\ schemaReply.table \in Tables) =>
        \E g \in generations : schemaReply.snapshot_columns = g[schemaReply.table]

(***************************************************************************)
(* C19: a get_schema_info that follows a re-snapshot of the table with no  *)
(* schema change in between reports drift_detected = false, nothing added  *)
(* and nothing removed.                                                    *)
(***************************************************************************)
C19_SnapshotThenDriftIsClean ==
    [][ (schemaPc = "have_current" /\ schemaPc' = "idle" /\ readClean
            /\ schemaArg[1] \in SnapshotSchemas) =>
            /\ schemaReply'.kind = "info"
            /\ schemaReply'.drift_detected = FALSE
            /\ schemaReply'.columns_added = {}
            /\ schemaReply'.columns_removed = {}
      ]_vars

\* raw.orders was re-snapshotted and then read: its columns match the snapshot
C19_Witness ==
    /\ snapshotFresh
    /\ readClean
    /\ schemaPc = "idle"
    /\ schemaArg = RawOrders
    /\ schemaReply.kind = "info"
    /\ schemaReply.table = RawOrders
    /\ schemaReply.snapshot_columns = BaseColumns[RawOrders]
    /\ schemaReply.drift_detected = FALSE

(***************************************************************************)
(* Fix lifecycle.  apply_dbt_model_fix, run_dbt_model and                  *)
(* rollback_dbt_model are imported by src/src/agents/repair.py from the    *)
(* tools module, whose definitions of them are not part of the sources at  *)
(* hand; they and commit are modelled from the design document, section    *)
(* 4.7.  The backup of a model is the file <model>.sql.backup that         *)
(* reset_demo restores from.                                               *)
(***************************************************************************)
\* contents a fix may write
Contents == {CleanSql, <<"b", "\n">>, <<"c", "\r", "\n">>}

\* names the tools are called with: the models and a name that is no model
TargetArgs == Targets \cup {"no_such_model"}

\* a plausible slip: no check for a fix in progress, the backup is overwritten
ApplyNoGuard(sql, bak, t, c) ==
    IF t \notin Targets
    THEN [result |-> "NotFoundError", sql |-> sql, bak |-> bak]
    ELSE [result |-> "ok",
          sql |-> [sql EXCEPT ![t] = c],
          bak |-> [bak EXCEPT ![t] = sql[t]]]

\* apply(target, new_content): refuses while a backup is outstanding, else
\* backs the current content up and writes the new content in place
Apply(sql, bak, t, c) ==
    IF t \notin Targets
    THEN [result |-> "NotFoundError", sql |-> sql, bak |-> bak]
    ELSE IF bak[t] # NoBackup
    THEN [result |-> "FixInProgressError", sql |-> sql, bak |-> bak]
    ELSE [result |-> "ok",
          sql |-> [sql EXCEPT ![t] = c],
          bak |-> [bak EXCEPT ![t] = sql[t]]]

\* a plausible slip: the backup is restored but its file is left behind
RollbackKeepsBackup(sql, bak, t) ==
    IF t \notin Targets
    THEN [result |-> "NotFoundError", sql |-> sql, bak |-> bak]
    ELSE IF bak[t] = NoBackup
    THEN [result |-> "NoBackupError", sql |-> sql, bak |-> bak]
    ELSE [result |-> "ok", sql |-> [sql EXCEPT ![t] = bak[t]], bak |-> bak]

\* rollback(target): restores the backup verbatim and deletes it
Rollback(sql, bak, t) ==
    IF t \notin Targets
    THEN [result |-> "NotFoundError", sql |-> sql, bak |-> bak]
    ELSE IF bak[t] = NoBackup
    THEN [result |-> "NoBackupError", sql |-> sql, bak |-> bak]
    ELSE [result |-> "ok",
          sql |-> [sql EXCEPT ![t] = bak[t]],
          bak |-> [bak EXCEPT ![t] = NoBackup]]

\* commit(target): after a successful validation the backup is deleted
Commit(sql, bak, t) ==
    IF t \notin Targets
    THEN [result |-> "NotFoundError", sql |-> sql, bak |-> bak]
    ELSE IF bak[t] = NoBackup
    THEN [result |-> "NoBackupError", sql |-> sql, bak |-> bak]
    ELSE [result |-> "ok", sql |-> sql, bak |-> [bak EXCEPT ![t] = NoBackup]]

\* open(path, "r").read(): text mode translates "\r\n" and "\r" to "\n"
RECURSIVE TextModeRead(_)
TextModeRead(s) ==
    IF s = <<>> THEN <<>>
    ELSE IF Head(s) = "\r"
    THEN IF Len(s) >= 2 /\ s[2] = "\n"
         THEN <<"\n">> \o TextModeRead(SubSeq(s, 3, Len(s)))
         ELSE <<"\n">> \o TextModeRead(Tail(s))
    ELSE <<Head(s)>> \o TextModeRead(Tail(s))

\* the history of what each outstanding backup has to restore
PreApplyAfter(t, before, after) ==
    IF t \notin Targets THEN preApply
    ELSE IF before.bak[t] = NoBackup /\ after.bak[t] # NoBackup
    THEN [preApply EXCEPT ![t] = before.sql[t]]
    ELSE IF after.bak[t] = NoBackup
    THEN [preApply EXCEPT ![t] = NoBackup]
    ELSE preApply

FixCall(op, t, r) ==
    /\ model_sql' = r.sql
    /\ backup' = r.bak
    /\ lastFixOp' = [op |-> op, target |-> t, result |-> r.result]
    /\ preApply' = PreApplyAfter(t, [sql |-> model_sql, bak |-> backup], r)

(***************************************************************************)
(* Incident workflow: PipelineOrchestrator.handle_alert runs the           *)
(* diagnostics agent and then the repair agent, one call each.  The repair *)
(* agent holds the fix tools and decides by itself which of them it calls. *)
(***************************************************************************)
Severities == {"CRITICAL", "WARNING", "INFO"}

MaxToolCalls == 2

InitFix ==
    /\ IdleFix /\ IdleIncident /\ IdleSandbox /\ IdleAudit /\ IdleHealth /\ IdleSchema
    /\ IdleScheduler /\ IdleChat /\ IdleDag /\ IdleQuality /\ IdleHistory /\ IdleAlerts

OtherThanFix == <<sandboxVars, auditVars, healthVars, schemaVars, schedVars, chatVars, dagVars, qualityVars, historyVars, alertVars>>

\* handle_alert is entered: diagnose_alert(alert) starts
HandleAlert ==
    /\ incidentPc = "Idle"
    /\ \E sev \in Severities : alertSeverity' = sev
    /\ incidentPc' = "Diagnosing"
    /\ approved' = FALSE
    /\ toolCalls' = 0
    /\ emitted' = 0
    /\ UNCHANGED <<fixVars, OtherThanFix>>

\* diagnose_alert returned; propose_fix creates the repair agent and calls it
ProposeFix ==
    /\ incidentPc = "Diagnosing"
    /\ incidentPc' = "Proposing"
    /\ emitted' = 0
    /\ UNCHANGED <<alertSeverity, approved, toolCalls, fixVars, OtherThanFix>>

\* the repair agent calls apply_dbt_model_fix
AgentAppliesFix ==
    /\ incidentPc = "Proposing"
    /\ toolCalls < MaxToolCalls
    /\ \E t \in TargetArgs, c \in Contents :
          FixCall("apply", t, Apply(model_sql, backup, t, c))
    /\ toolCalls' = toolCalls + 1
    /\ UNCHANGED <<incidentPc, alertSeverity, approved, emitted, OtherThanFix>>

\* the repair agent calls run_dbt_model: the build passes or fails
AgentRunsDbt ==
    /\ incidentPc = "Proposing"
    /\ toolCalls < MaxToolCalls
    /\ \E t \in Targets, outcome \in {"pass", "fail"} :
          lastFixOp' = [op |-> "validate", target |-> t, result |-> outcome]
    /\ toolCalls' = toolCalls + 1
    /\ UNCHANGED <<model_sql, backup, preApply>>
    /\ UNCHANGED <<incidentPc, alertSeverity, approved, emitted, OtherThanFix>>

\* the repair agent calls rollback_dbt_model
AgentRollsBack ==
    /\ incidentPc = "Proposing"
    /\ toolCalls < MaxToolCalls
    /\ \E t \in TargetArgs : FixCall("rollback", t, Rollback(model_sql, backup, t))
    /\ toolCalls' = toolCalls + 1
    /\ UNCHANGED <<incidentPc, alertSeverity, approved, emitted, OtherThanFix>>

\* the fix of a target is committed after its validation passed
CommitFix ==
    /\ lastFixOp.op = "validate" /\ lastFixOp.result = "pass"
    /\ FixCall("commit", lastFixOp.target, Commit(model_sql, backup, lastFixOp.target))
    /\ UNCHANGED <<incidentVars, OtherThanFix>>

\* propose_fix returned; handle_alert returns its result
HandleAlertReturns ==
    /\ incidentPc = "Proposing"
    /\ incidentPc' = "Done"
    /\ UNCHANGED <<alertSeverity, approved, toolCalls, emitted, fixVars, OtherThanFix>>

\* the caller is ready for the next alert
NextAlert ==
    /\ incidentPc = "Done"
    /\ incidentPc' = "Idle"
    /\ UNCHANGED <<alertSeverity, approved, toolCalls, emitted, fixVars, OtherThanFix>>

\* an operator approves the proposed fix (a chat message)
OperatorApproves ==
    /\ incidentPc \in {"Proposing", "Done"}
    /\ ~approved
    /\ approved' = TRUE
    /\ UNCHANGED <<incidentPc, alertSeverity, toolCalls, emitted, fixVars, OtherThanFix>>

\* reset_demo: every *.sql.backup is read in text mode, written over its
\* model and removed
ResetDemoRestore ==
    /\ \E t \in Targets : backup[t] # NoBackup
    /\ model_sql' = [t \in Targets |->
                        IF backup[t] # NoBackup THEN TextModeRead(backup[t])
                        ELSE model_sql[t]]
    /\ backup' = [t \in Targets |-> NoBackup]
    /\ preApply' = [t \in Targets |-> NoBackup]
    /\ lastFixOp' = [op |-> "reset_demo", target |-> "all", result |-> "ok"]
    /\ UNCHANGED <<incidentVars, OtherThanFix>>

NextFix ==
    \/ HandleAlert
    \/ ProposeFix
    \/ AgentAppliesFix
    \/ AgentRunsDbt
    \/ AgentRollsBack
    \/ CommitFix
    \/ HandleAlertReturns
    \/ NextAlert
    \/ OperatorApproves
    \/ ResetDemoRestore

SpecFix == InitFix /\ [][NextFix]_vars

\* a step in which the repair agent calls fix tool `op`
FixStep(op) == toolCalls' = toolCalls + 1 /\ lastFixOp'.op = op

(***************************************************************************)
(* C2: for a CRITICAL alert no fix is written to a transformation          *)
(* definition unless an explicit approval for that incident happened       *)
(* earlier.                                                                *)
(***************************************************************************)
C2_ApprovalBeforeApply ==
    [][ (FixStep("apply") /\ lastFixOp'.result = "ok" /\ alertSeverity = "CRITICAL")
            => approved ]_vars

(***************************************************************************)
(* C7: at most one outstanding backup exists per target: an apply on a     *)
(* target that still has an unconsumed backup fails with                   *)
(* FixInProgressError and leaves the backup and the definition unchanged,  *)
(* and the outstanding backup always holds the content to restore.         *)
(***************************************************************************)
C7_SecondApplyFailsFast ==
    [][ \A t \in Targets :
            (FixStep("apply") /\ lastFixOp'.target = t /\ backup[t] # NoBackup) =>
                /\ lastFixOp'.result = "FixInProgressError"
                /\ backup'[t] = backup[t]
                /\ model_sql'[t] = model_sql[t]
      ]_vars

\* an apply was refused because the target's earlier fix is still outstanding
C7_Witness ==
    /\ lastFixOp.op = "apply"
    /\ lastFixOp.result = "FixInProgressError"
    /\ backup[lastFixOp.target] # NoBackup
    /\ model_sql[lastFixOp.target] # backup[lastFixOp.target]

OtherThanWorkflow ==
    <<sandboxVars, healthVars, schemaVars, fixVars, schedVars, chatVars, dagVars, qualityVars, historyVars, alertVars>>

\* the stages in which an agent is at work
AgentStages == {"Diagnosing", "Proposing", "Checking"}

\* run_full_check is entered: run_health_check() starts the monitor agent
RunFullCheck ==
    /\ incidentPc = "Idle"
    /\ incidentPc' = "Checking"
    /\ emitted' = 0
    /\ UNCHANGED <<alertSeverity, approved, toolCalls>>
    /\ UNCHANGED <<auditVars, OtherThanWorkflow>>

\* run_health_check returned; run_full_check returns its results
RunFullCheckReturns ==
    /\ incidentPc = "Checking"
    /\ incidentPc' = "Done"
    /\ UNCHANGED <<alertSeverity, approved, toolCalls, emitted>>
    /\ UNCHANGED <<auditVars, OtherThanWorkflow>>

\* the agent of the stage calls log_agent_action
AgentLogsAction ==
    /\ incidentPc \in AgentStages
    /\ action_id_seq < MaxActions
    /\ \E e \in AgentEntries, raises \in BOOLEAN :
          log_agent_action(e[1], e[2], raises)
    /\ emitted' = emitted + (Len(agent_actions') - Len(agent_actions))
    /\ UNCHANGED <<incidentPc, alertSeverity, approved, toolCalls>>
    /\ UNCHANGED OtherThanWorkflow

NextWorkflow ==
    \/ HandleAlert
    \/ ProposeFix
    \/ HandleAlertReturns
    \/ NextAlert
    \/ RunFullCheck
    \/ RunFullCheckReturns
    \/ AgentLogsAction

SpecWorkflow == InitFix /\ [][NextWorkflow]_vars

(***************************************************************************)
(* C16: every transition of the workflow emits an audit entry: by the time *)
(* a stage entered by handle_alert or run_full_check is left, at least one *)
(* entry has been appended to the audit log since it was entered, whatever *)
(* the agent of the stage did.                                             *)
(***************************************************************************)
C16_TransitionsEmitActions ==
    [][ (incidentPc \in AgentStages /\ incidentPc' # incidentPc) => emitted >= 1 ]_vars

(***************************************************************************)
(* C17: an alert of severity INFO is logged directly: handling it enters   *)
(* neither the diagnosis nor the fix proposal.                             *)
(***************************************************************************)
C17_InfoGoesToLogged ==
    [][ (incidentPc' # incidentPc /\ incidentPc' \in {"Diagnosing", "Proposing"})
            => alertSeverity' # "INFO" ]_vars

(***************************************************************************)
(* Scheduler.  Time passes in seconds (Tick).  A thread that is sleeping   *)
(* wakes with the next second; the loop's own steps and the alert-count    *)
(* query take no time; a health check (a call of the monitor agent) takes  *)
(* as long as it takes.                                                    *)
(***************************************************************************)
\* self.interval, in seconds
Interval == 2
\* health checks a behaviour may start
MaxChecks == 3
\* self._thread.join(timeout=5)
JoinTimeout == 5

OtherThanSched ==
    <<sandboxVars, auditVars, healthVars, schemaVars, fixVars, incidentVars, chatVars,
      dagVars, qualityVars, historyVars>>

\* pipeline_meta.agent_actions when the scheduler is created: empty, or
\* holding a monitor alert committed within the last 10 minutes
InitialActions == {<<>>, <<ActionRow(1, "monitor", "alert")>>}

InitScheduler ==
    /\ agent_actions \in InitialActions
    /\ action_id_seq = Len(agent_actions)
    /\ logReply = [kind |-> "none"]
    /\ actionsRead = <<>>
    /\ checkReply = "none"
    /\ lastWrite = [op |-> "none", raised |-> FALSE]
    /\ IdleScheduler /\ IdleSandbox /\ IdleHealth /\ IdleSchema
    /\ IdleFix /\ IdleIncident /\ IdleChat /\ IdleDag /\ IdleQuality /\ IdleHistory /\ IdleAlerts

\* rows the alert-count query counts
AlertCount ==
    Cardinality({i \in DOMAIN agent_actions :
                    /\ i > expired
                    /\ agent_actions[i].agent_name = "monitor"
                    /\ agent_actions[i].action_type = "alert"})

\* start(): nothing when already running, else a new daemon thread on _loop
Start ==
    /\ IF running
       THEN UNCHANGED <<running, schedThread, loopPc, loopI>>
       ELSE /\ \E t \in ThreadIds : loopPc[t] = "unborn"
            /\ LET t == CHOOSE x \in ThreadIds :
                            /\ loopPc[x] = "unborn"
                            /\ \A y \in ThreadIds : loopPc[y] = "unborn" => x <= y
               IN  /\ running' = TRUE
                   /\ schedThread' = t
                   /\ loopPc' = [loopPc EXCEPT ![t] = "while"]
                   /\ loopI' = [loopI EXCEPT ![t] = 0]
    /\ UNCHANGED <<check_count, lastPrint, tickErrors, stopPc, joinTarget, joinClock>>
    /\ UNCHANGED <<OtherThanSched, alertVars>>

\* _loop: `while self.running:`; a true test enters _run_check, which counts
\* the check and calls run_health_check
LoopTest(t) ==
    /\ loopPc[t] = "while"
    /\ IF running
       THEN /\ check_count < MaxChecks
            /\ check_count' = check_count + 1
            /\ loopPc' = [loopPc EXCEPT ![t] = "check"]
            /\ tickAlerts' = [tickAlerts EXCEPT ![t] = 0]
            /\ checksDone' = [checksDone EXCEPT ![t] = @ + 1]
       ELSE /\ loopPc' = [loopPc EXCEPT ![t] = "exited"]
            /\ UNCHANGED <<check_count, tickAlerts, checksDone>>
    /\ UNCHANGED <<running, schedThread, loopI, lastPrint, tickErrors, stopPc,
                   joinTarget, joinClock, expired>>
    /\ UNCHANGED OtherThanSched

\* run_health_check returned: the alert-count query is next
HealthCheckReturns(t) ==
    /\ loopPc[t] = "check"
    /\ loopPc' = [loopPc EXCEPT ![t] = "query"]
    /\ UNCHANGED <<running, schedThread, loopI, check_count, lastPrint, tickErrors,
                   stopPc, joinTarget, joinClock>>
    /\ UNCHANGED <<OtherThanSched, alertVars>>

\* the monitor agent of this health check logs a finding as an alert
\* (log_agent_action with agent_name 'monitor')
HealthCheckLogsAlert(t) ==
    /\ loopPc[t] = "check"
    /\ action_id_seq < MaxActions
    /\ \E raises \in BOOLEAN :
          /\ log_agent_action("monitor", "alert", raises)
          /\ tickAlerts' = [tickAlerts EXCEPT ![t] = IF raises THEN @ ELSE @ + 1]
    /\ UNCHANGED <<schedVars, expired, checksDone>>
    /\ UNCHANGED <<sandboxVars, healthVars, schemaVars, fixVars, incidentVars, chatVars,
                   dagVars, qualityVars, historyVars>>

\* the oldest row still inside the query's 10 minutes leaves them
AlertExpires ==
    /\ expired < Len(agent_actions)
    /\ expired' = expired + 1
    /\ UNCHANGED <<tickAlerts, checksDone>>
    /\ UNCHANGED <<schedVars, OtherThanSched>>

\* run_health_check raised: the except clause prints the error
HealthCheckRaises(t) ==
    /\ loopPc[t] = "check"
    /\ loopPc' = [loopPc EXCEPT ![t] = "for"]
    /\ loopI' = [loopI EXCEPT ![t] = 0]
    /\ lastPrint' = "error"
    /\ tickErrors' = tickErrors + 1
    /\ UNCHANGED <<running, schedThread, check_count, stopPc, joinTarget, joinClock>>
    /\ UNCHANGED <<OtherThanSched, alertVars>>

\* the alert-count query answered, or raised into the except clause
AlertQuery(t) ==
    /\ loopPc[t] = "query"
    /\ \E raises \in BOOLEAN :
          IF raises
          THEN /\ lastPrint' = "error"
               /\ tickErrors' = tickErrors + 1
          ELSE /\ lastPrint' = IF AlertCount > 0 THEN "new_alerts" ELSE "all_healthy"
               /\ UNCHANGED tickErrors
    /\ loopPc' = [loopPc EXCEPT ![t] = "for"]
    /\ loopI' = [loopI EXCEPT ![t] = 0]
    /\ UNCHANGED <<running, schedThread, check_count, stopPc, joinTarget, joinClock>>
    /\ UNCHANGED <<OtherThanSched, alertVars>>

\* variant: the thread ends when its sleep loop is over
SleepLoopExits(t) ==
    /\ loopPc[t] = "for"
    /\ loopPc' = [loopPc EXCEPT ![t] =
                     IF loopI[t] >= Interval \/ ~running THEN "exited" ELSE "sleeping"]
    /\ UNCHANGED <<running, schedThread, loopI, check_count, lastPrint, tickErrors,
                   stopPc, joinTarget, joinClock>>
    /\ UNCHANGED <<OtherThanSched, alertVars>>

\* `for _ in range(self.interval): if not self.running: break; time.sleep(1)`
SleepLoop(t) ==
    /\ loopPc[t] = "for"
    /\ loopPc' = [loopPc EXCEPT ![t] =
                     IF loopI[t] >= Interval \/ ~running THEN "while" ELSE "sleeping"]
    /\ UNCHANGED <<running, schedThread, loopI, check_count, lastPrint, tickErrors,
                   stopPc, joinTarget, joinClock>>
    /\ UNCHANGED <<OtherThanSched, alertVars>>

\* stop(): clears running and joins self._thread, if there is one
Stop ==
    /\ stopPc # "joining"
    /\ running' = FALSE
    /\ joinTarget' = schedThread
    /\ joinClock' = 0
    /\ stopPc' = IF schedThread # 0 THEN "joining" ELSE "returned"
    /\ UNCHANGED <<schedThread, loopPc, loopI, check_count, lastPrint, tickErrors>>
    /\ UNCHANGED <<OtherThanSched, alertVars>>

\* the join ends: the thread is gone, or the timeout has passed
JoinEnds ==
    /\ stopPc = "joining"
    /\ loopPc[joinTarget] = "exited" \/ joinClock >= JoinTimeout
    /\ stopPc' = "returned"
    /\ UNCHANGED <<running, schedThread, loopPc, loopI, check_count, lastPrint,
                   tickErrors, joinTarget, joinClock>>
    /\ UNCHANGED <<OtherThanSched, alertVars>>

\* some step that takes no time is still to be taken
Urgent ==
    \/ \E t \in ThreadIds :
          \/ loopPc[t] \in {"for", "query"}
          \/ loopPc[t] = "while" /\ (~running \/ check_count < MaxChecks)
    \/ stopPc = "joining" /\ (loopPc[joinTarget] = "exited" \/ joinClock >= JoinTimeout)

\* one second passes
Tick ==
    /\ ~Urgent
    /\ (\E t \in ThreadIds : loopPc[t] = "sleeping") \/ stopPc = "joining"
    /\ loopPc' = [t \in ThreadIds |->
                     IF loopPc[t] = "sleeping" THEN "for" ELSE loopPc[t]]
    /\ loopI' = [t \in ThreadIds |->
                     IF loopPc[t] = "sleeping" THEN loopI[t] + 1 ELSE loopI[t]]
    /\ joinClock' = IF stopPc = "joining" THEN joinClock + 1 ELSE joinClock
    /\ UNCHANGED <<running, schedThread, check_count, lastPrint, tickErrors,
                   stopPc, joinTarget>>
    /\ UNCHANGED <<OtherThanSched, alertVars>>

NextScheduler ==
    \/ Start
    \/ Stop
    \/ JoinEnds
    \/ Tick
    \/ AlertExpires
    \/ \E t \in ThreadIds :
          \/ LoopTest(t)
          \/ HealthCheckLogsAlert(t)
          \/ HealthCheckReturns(t)
          \/ HealthCheckRaises(t)
          \/ AlertQuery(t)
          \/ SleepLoop(t)

SpecScheduler == InitScheduler /\ [][NextScheduler]_vars

(***************************************************************************)
(* C9: a stop signal halts the loop within one polling tick: when stop()   *)
(* returns, the loop thread it stopped has exited, whether the signal came *)
(* while the loop was sleeping or while a health check was in progress.    *)
(***************************************************************************)
C9_StopHaltsLoop ==
    (stopPc = "returned" /\ joinTarget # 0) => loopPc[joinTarget] = "exited"

(***************************************************************************)
(* C10: a failure inside one scheduler tick is caught within that tick and *)
(* does not end the loop (the thread goes on to its sleep loop), and a     *)
(* failed health check is logged to the audit log.                         *)
(***************************************************************************)
C10_TickFailureLogged ==
    [][ \A t \in ThreadIds :
            (tickErrors' # tickErrors /\ loopPc'[t] # loopPc[t]) =>
                /\ loopPc'[t] = "for"
                /\ loopPc[t] = "check" => Len(agent_actions') = Len(agent_actions) + 1
      ]_vars

LoopThreads == {t \in ThreadIds : loopPc[t] \notin {"unborn", "exited"}}

(***************************************************************************)
(* C28: after any sequence of start() and stop() calls at most one loop    *)
(* thread is executing health checks.                                      *)
(***************************************************************************)
C28_SingleLoopThread == Cardinality(LoopThreads) <= 1

(***************************************************************************)
(* The scheduler left running: start() and the loop thread, nobody calls   *)
(* stop().  The loop thread is scheduled again and again, seconds pass,    *)
(* and every health check ends, by returning or by raising.                *)
(***************************************************************************)
NextRunning ==
    \/ Start
    \/ Tick
    \/ \E t \in ThreadIds :
          \/ LoopTest(t)
          \/ HealthCheckReturns(t)
          \/ HealthCheckRaises(t)
          \/ AlertQuery(t)
          \/ SleepLoop(t)

FairRunning ==
    /\ WF_vars(Tick)
    /\ \A t \in ThreadIds :
          /\ WF_vars(LoopTest(t))
          /\ WF_vars(HealthCheckReturns(t) \/ HealthCheckRaises(t))
          /\ WF_vars(AlertQuery(t))
          /\ WF_vars(SleepLoop(t))

SpecSchedulerRunning == InitScheduler /\ [][NextRunning]_vars /\ FairRunning

(***************************************************************************)
(* C30: after start() the loop thread runs its first health check before   *)
(* any sleep; while the scheduler stays running and every health check     *)
(* ends, each further health check starts when the thread has slept        *)
(* Interval seconds, and another health check always follows: check_count  *)
(* passes every value (up to the bound of the model).                      *)
(***************************************************************************)
C30_ChecksRecur ==
    /\ [](\A t \in ThreadIds :
            checksDone[t] = 0 => (loopI[t] = 0 /\ loopPc[t] \in {"unborn", "while"}))
    /\ [][ \A t \in ThreadIds :
              (loopPc[t] = "while" /\ loopPc'[t] = "check" /\ checksDone[t] >= 1)
                  => loopI[t] = Interval ]_vars
    /\ \A n \in 0..(MaxChecks - 1) :
          (running /\ check_count = n) ~> (check_count = n + 1)

\* a second health check begins after Interval seconds of sleep
C30_Witness ==
    /\ running
    /\ \E t \in ThreadIds :
          /\ loopPc[t] = "check"
          /\ checksDone[t] = 2
          /\ loopI[t] = Interval
    /\ check_count = 2

(***************************************************************************)
(* POST /chat.  The request thread fetches the shared agent, starts a      *)
(* worker thread on it and joins the worker for at most ChatTimeout        *)
(* seconds.  Time passes in seconds (ChatTick); the agent call takes as    *)
(* long as it takes and may end after the request has returned.            *)
(***************************************************************************)
\* t.join(timeout=120)
ChatTimeout == 120
\* agent objects _get_chat_agent may create
MaxAgents == 2

OtherThanChat ==
    <<sandboxVars, auditVars, healthVars, schemaVars, fixVars, incidentVars, schedVars,
      dagVars, qualityVars, historyVars, alertVars>>

InitChat ==
    /\ IdleChat /\ IdleSandbox /\ IdleAudit /\ IdleHealth /\ IdleSchema
    /\ IdleFix /\ IdleIncident /\ IdleScheduler /\ IdleDag /\ IdleQuality /\ IdleHistory /\ IdleAlerts

TimeoutResponse ==
    << "R", "e", "q", "u", "e", "s", "t", " ", "t", "i", "m", "e", "d",
       " ", "o", "u", "t", ".", " ", "T", "r", "y", " ", "a", " ", "m",
       "o", "r", "e", " ", "s", "p", "e", "c", "i", "f", "i", "c", " ",
       "q", "u", "e", "s", "t", "i", "o", "n", "." >>

ErrorPrefix == <<"E", "r", "r", "o", "r", ":", " ">>

\* str(agent(request.message)): what the agent may answer
Replies == {<<"o", "k">>, <<>>}

\* str(e) of what the agent call may raise: Exception("boom"), TimeoutError()
ErrorTexts == {<<"b", "o", "o", "m">>, <<>>}

\* Python's truth value of an Optional[str]
Truthy(m) == m # None /\ m # <<>>

\* the three returns of chat, in their order
ChatResponseText(alive, msg, response) ==
    IF alive THEN TimeoutResponse
    ELSE IF Truthy(msg) THEN ErrorPrefix \o msg
    ELSE response

\* chat up to t.join: _get_chat_agent, the two dicts, t.start()
ChatStart(r) ==
    /\ chatPc[r] = "idle"
    /\ IF chatAgent = 0
       THEN /\ agentsMade < MaxAgents
            /\ agentsMade' = agentsMade + 1
            /\ chatAgent' = agentsMade + 1
       ELSE UNCHANGED <<agentsMade, chatAgent>>
    /\ chatPc' = [chatPc EXCEPT ![r] = "joining"]
    /\ worker' = [worker EXCEPT ![r] = "running"]
    /\ workerAgent' = [workerAgent EXCEPT ![r] = chatAgent']
    /\ chatResult' = [chatResult EXCEPT ![r] = <<>>]
    /\ chatError' = [chatError EXCEPT ![r] = None]
    /\ chatWaited' = [chatWaited EXCEPT ![r] = 0]
    /\ UNCHANGED <<workerRaised, chatAlive, chatResponse>>
    /\ UNCHANGED OtherThanChat

\* run(): the agent call returned
WorkerReplies(r) ==
    /\ worker[r] = "running"
    /\ \E reply \in Replies : chatResult' = [chatResult EXCEPT ![r] = reply]
    /\ worker' = [worker EXCEPT ![r] = "done"]
    /\ UNCHANGED <<chatAgent, agentsMade, chatPc, workerAgent, workerRaised, chatError,
                   chatWaited, chatAlive, chatResponse>>
    /\ UNCHANGED OtherThanChat

\* run(): the agent call raised, the except clause keeps str(e)
WorkerRaises(r) ==
    /\ worker[r] = "running"
    /\ \E text \in ErrorTexts : chatError' = [chatError EXCEPT ![r] = text]
    /\ workerRaised' = [workerRaised EXCEPT ![r] = TRUE]
    /\ worker' = [worker EXCEPT ![r] = "done"]
    /\ UNCHANGED <<chatAgent, agentsMade, chatPc, workerAgent, chatResult,
                   chatWaited, chatAlive, chatResponse>>
    /\ UNCHANGED OtherThanChat

\* the join of request r is over: its worker ended or the timeout passed
JoinOver(r) ==
    chatPc[r] = "joining" /\ (worker[r] = "done" \/ chatWaited[r] >= ChatTimeout)

\* chat after t.join: t.is_alive() and the three returns
ChatReturns(r) ==
    /\ JoinOver(r)
    /\ chatAlive' = [chatAlive EXCEPT ![r] = (worker[r] = "running")]
    /\ chatResponse' = [chatResponse EXCEPT ![r] =
            ChatResponseText(worker[r] = "running", chatError[r], chatResult[r])]
    /\ chatPc' = [chatPc EXCEPT ![r] = "returned"]
    /\ chatWaited' = [chatWaited EXCEPT ![r] = 0]
    /\ UNCHANGED <<chatAgent, agentsMade, worker, workerAgent, workerRaised,
                   chatResult, chatError>>
    /\ UNCHANGED OtherThanChat

\* one second passes for the requests that wait in t.join
ChatTick ==
    /\ \E r \in ChatIds : chatPc[r] = "joining"
    /\ \A r \in ChatIds : ~JoinOver(r)
    /\ chatWaited' = [r \in ChatIds |->
                         IF chatPc[r] = "joining" THEN chatWaited[r] + 1
                         ELSE chatWaited[r]]
    /\ UNCHANGED <<chatAgent, agentsMade, chatPc, worker, workerAgent, workerRaised,
                   chatResult, chatError, chatAlive, chatResponse>>
    /\ UNCHANGED OtherThanChat

\* reset_chat: the shared agent is dropped
ResetChat ==
    /\ chatAgent # 0
    /\ chatAgent' = 0
    /\ UNCHANGED <<agentsMade, chatPc, worker, workerAgent, workerRaised, chatResult,
                   chatError, chatWaited, chatAlive, chatResponse>>
    /\ UNCHANGED OtherThanChat

NextChat ==
    \/ ChatTick
    \/ ResetChat
    \/ \E r \in ChatIds :
          \/ ChatStart(r)
          \/ WorkerReplies(r)
          \/ WorkerRaises(r)
          \/ ChatReturns(r)

SpecChat == InitChat /\ [][NextChat]_vars

(***************************************************************************)
(* C11: POST /chat always returns a ChatResponse: the timeout response if  *)
(* the agent has not finished when the join is over, "Error: " followed by *)
(* the error text if the agent call raised, otherwise the agent's reply;   *)
(* and no request waits longer than ChatTimeout seconds.                   *)
(***************************************************************************)
C11_ChatAlwaysAnswers ==
    \A r \in ChatIds :
        /\ chatWaited[r] <= ChatTimeout
        /\ chatPc[r] = "returned" =>
              chatResponse[r] =
                 IF chatAlive[r] THEN TimeoutResponse
                 ELSE IF workerRaised[r] THEN ErrorPrefix \o chatError[r]
                 ELSE chatResult[r]

(***************************************************************************)
(* C29: at most one agent invocation started by POST /chat is in flight at *)
(* any time: no two worker threads are running at once, on the same agent  *)
(* or, after a /chat/reset, on two agents.                                 *)
(***************************************************************************)
C29_SingleInvocationInFlight ==
    Cardinality({r \in ChatIds : worker[r] = "running"}) <= 1

(***************************************************************************)
(* Dependency graph.  get_pipeline_dag reads pipeline_meta.dependencies;   *)
(* the operation that inserts its rows is not part of the sources at hand  *)
(* and is modelled from the design document, section 4.1: add_dependency   *)
(* (a, b) records that a depends on b unless a is reachable from b.        *)
(***************************************************************************)
\* pipelines of the registry, by pipeline_id
MaxPipelines == 3
PipelineIds  == 1..MaxPipelines

OtherThanDag ==
    <<sandboxVars, auditVars, healthVars, schemaVars, fixVars, incidentVars, schedVars,
      chatVars, qualityVars, historyVars, alertVars>>

InitDag ==
    /\ IdleDag /\ IdleQuality /\ IdleHistory /\ IdleAlerts /\ IdleSandbox /\ IdleAudit /\ IdleHealth /\ IdleSchema
    /\ IdleFix /\ IdleIncident /\ IdleScheduler /\ IdleChat

\* the pipelines reached from `from` along n or fewer edges
RECURSIVE ReachedWithin(_, _, _)
ReachedWithin(edges, from, n) ==
    IF n = 0 THEN {from}
    ELSE LET near == ReachedWithin(edges, from, n - 1)
         IN  near \cup {e[2] : e \in {d \in edges : d[1] \in near}}

\* `to` is reachable from `from`; every pipeline reaches itself
Reachable(edges, from, to) == to \in ReachedWithin(edges, from, MaxPipelines)

\* a plausible slip: the reachability check forgets the edge from a to itself
AddDependencyNoSelf(edges, a, b) ==
    IF a # b /\ Reachable(edges, b, a)
    THEN [result |-> "CycleError", edges |-> edges]
    ELSE [result |-> "ok", edges |-> edges \cup {<<a, b>>}]

\* add_dependency(a, b): CycleError if a is reachable from b, else the edge
AddDependency(edges, a, b) ==
    IF Reachable(edges, b, a)
    THEN [result |-> "CycleError", edges |-> edges]
    ELSE [result |-> "ok", edges |-> edges \cup {<<a, b>>}]

AddDependencyCall ==
    /\ \E a \in PipelineIds, b \in PipelineIds :
          LET r == AddDependency(dependencies, a, b)
          IN  /\ dependencies' = r.edges
              /\ depReply' = [a |-> a, b |-> b, result |-> r.result]
    /\ UNCHANGED dagResult
    /\ UNCHANGED OtherThanDag

\* get_pipeline_dag: the direct upstream rows, the target, the direct
\* downstream rows
GetPipelineDag ==
    /\ \E p \in PipelineIds :
          dagResult' = [target |-> p,
                        upstream |-> {d[2] : d \in {e \in dependencies : e[1] = p}},
                        downstream |-> {d[1] : d \in {e \in dependencies : e[2] = p}}]
    /\ UNCHANGED <<dependencies, depReply>>
    /\ UNCHANGED OtherThanDag

NextDag ==
    \/ AddDependencyCall
    \/ GetPipelineDag

SpecDag == InitDag /\ [][NextDag]_vars

\* some pipeline reaches itself along one or more edges
HasCycle(edges) ==
    \E e \in edges : Reachable(edges, e[2], e[1])

(***************************************************************************)
(* C12: the dependency graph is acyclic in every reachable state, and an   *)
(* add_dependency(a, b) that would close a cycle (a reachable from b,      *)
(* a = b included) fails with CycleError and leaves the edges unchanged.   *)
(***************************************************************************)
C12_GraphStaysAcyclic ==
    [][ /\ ~HasCycle(dependencies')
        /\ (depReply' # depReply /\ Reachable(dependencies, depReply'.b, depReply'.a)) =>
              /\ depReply'.result = "CycleError"
              /\ dependencies' = dependencies
      ]_vars

\* an insertion that would have closed a cycle of two or more edges was refused
C12_Witness ==
    /\ depReply.result = "CycleError"
    /\ depReply.a # depReply.b
    /\ <<depReply.b, depReply.a>> \notin dependencies
    /\ ~HasCycle(dependencies)

(***************************************************************************)
(* Quality checks: the seeding statements of cleanup.py and reset_demo,    *)
(* the failure injector, and the query of get_quality_checks.  Numeric     *)
(* values are counted in halves (2 is 1.0); time is in half hours.         *)
(***************************************************************************)
MaxThreshold == 6
MaxResults == 3
MaxHalfHours == 2

KnownKinds == {"max_percent", "min_count", "max_age_hours", "max_count"}
ThresholdKinds == KnownKinds \cup {"regex"}

CheckRows ==
    [pipeline_id : Pipelines, threshold_type : ThresholdKinds,
     threshold_value : 0..MaxThreshold, is_active : BOOLEAN]

Greatest(a, b) == IF a >= b THEN a ELSE b

\* the CASE of the seeding INSERT ... SELECT
SeededActual(kind, threshold) ==
    CASE kind = "max_percent"   -> Greatest(0, threshold - 2)
      [] kind = "min_count"     -> threshold + 200
      [] kind = "max_age_hours" -> Greatest(1, threshold - 4)
      [] kind = "max_count"     -> Greatest(0, threshold - 2)
      [] OTHER                  -> 0

\* the row the seeding INSERT ... SELECT makes for check c
SeededRow(c) ==
    [check_id |-> c,
     status |-> "pass",
     actual_value |-> SeededActual(data_quality_checks[c].threshold_type,
                                   data_quality_checks[c].threshold_value),
     expected_value |-> data_quality_checks[c].threshold_value,
     checked_at |-> qualityNow - 1]

\* the rows for the active checks among check ids 1..n, in check_id order
RECURSIVE SeededRows(_)
SeededRows(n) ==
    IF n = 0 THEN <<>>
    ELSE IF data_quality_checks[n].is_active
         THEN Append(SeededRows(n - 1), SeededRow(n))
         ELSE SeededRows(n - 1)

InitQuality ==
    /\ \E active \in BOOLEAN, c \in CheckRows :
          data_quality_checks = <<[OrdersAmountNotNull EXCEPT !.is_active = active], c>>
    /\ quality_results = <<>>
    /\ qualityNow = 0
    /\ seedPc = "idle"
    /\ qualityReply = NoReply
    /\ IdleHistory /\ IdleAlerts /\ IdleSandbox /\ IdleAudit /\ IdleHealth /\ IdleSchema /\ IdleFix
    /\ IdleIncident /\ IdleScheduler /\ IdleChat /\ IdleDag

OtherThanQuality ==
    <<sandboxVars, auditVars, healthVars, schemaVars, fixVars, incidentVars, schedVars,
      chatVars, dagVars, historyVars, alertVars>>

\* DELETE FROM pipeline_meta.quality_results;
SeedDeleteResults ==
    /\ seedPc = "idle"
    /\ quality_results' = <<>>
    /\ seedPc' = "deleted"
    /\ qualityReply' = NoReply
    /\ UNCHANGED <<data_quality_checks, qualityNow>>
    /\ UNCHANGED OtherThanQuality

\* INSERT INTO pipeline_meta.quality_results ... SELECT ... WHERE is_active = true
SeedInsertResults ==
    /\ seedPc = "deleted"
    /\ Len(quality_results) + Len(data_quality_checks) <= MaxResults
    /\ quality_results' = quality_results \o SeededRows(Len(data_quality_checks))
    /\ seedPc' = "idle"
    /\ qualityReply' = NoReply
    /\ UNCHANGED <<data_quality_checks, qualityNow>>
    /\ UNCHANGED OtherThanQuality

\* inject_data_quality_issue: the 'fail' result of orders_amount_not_null,
\* 15.0 percent against 5.0, checked_at left to the column's default
InjectDataQualityIssue ==
    /\ Len(quality_results) < MaxResults
    /\ quality_results' = Append(quality_results,
            [check_id |-> 1, status |-> "fail", actual_value |-> 30,
             expected_value |-> 10, checked_at |-> qualityNow])
    /\ qualityReply' = NoReply
    /\ UNCHANGED <<data_quality_checks, qualityNow, seedPc>>
    /\ UNCHANGED OtherThanQuality

\* half an hour passes
QualityTick ==
    /\ qualityNow < MaxHalfHours
    /\ qualityNow' = qualityNow + 1
    /\ qualityReply' = NoReply
    /\ UNCHANGED <<data_quality_checks, quality_results, seedPc>>
    /\ UNCHANGED OtherThanQuality

\* the results of check c
ResultsOf(c) == {i \in DOMAIN quality_results : quality_results[i].check_id = c}

\* variant: any result of the check, as a join without ORDER BY would give
JoinAnyResult(c) == IF ResultsOf(c) = {} THEN {0} ELSE ResultsOf(c)

\* LEFT JOIN LATERAL (... ORDER BY qr2.checked_at DESC LIMIT 1) ON true: the
\* results the one joined row can be (0: none, the qr columns are NULL)
JoinLatest(c) ==
    IF ResultsOf(c) = {} THEN {0}
    ELSE {i \in ResultsOf(c) :
            \A j \in ResultsOf(c) :
                quality_results[j].checked_at <= quality_results[i].checked_at}

\* the SELECT list for check c joined to result i
QualityRow(c, i) ==
    [check_id |-> c,
     threshold_type |-> data_quality_checks[c].threshold_type,
     threshold_value |-> data_quality_checks[c].threshold_value,
     result |-> i,
     last_result_status |-> IF i = 0 THEN "NULL" ELSE quality_results[i].status,
     actual_value |-> IF i = 0 THEN NULL ELSE quality_results[i].actual_value,
     checked_at |-> IF i = 0 THEN NULL ELSE quality_results[i].checked_at]

\* pipeline names get_quality_checks is called with
PipelineArgs == {pipeline_name[p] : p \in Pipelines} \cup {"no_such_pipeline"}

\* WHERE p.pipeline_name = %s AND dqc.is_active = true
SelectedChecks(name) ==
    {c \in DOMAIN data_quality_checks :
        /\ pipeline_name[data_quality_checks[c].pipeline_id] = name
        /\ data_quality_checks[c].is_active}

GetQualityChecks ==
    /\ qualityReply = NoReply
    /\ \E name \in PipelineArgs :
       \E pick \in [DOMAIN data_quality_checks -> 0..Len(quality_results)] :
          /\ \A c \in DOMAIN data_quality_checks : pick[c] \in JoinLatest(c)
          /\ qualityReply' = [kind |-> "rows", pipeline |-> name,
                              rows |-> {QualityRow(c, pick[c]) : c \in SelectedChecks(name)}]
    /\ UNCHANGED <<data_quality_checks, quality_results, qualityNow, seedPc>>
    /\ UNCHANGED OtherThanQuality

NextQuality ==
    \/ SeedDeleteResults
    \/ SeedInsertResults
    \/ InjectDataQualityIssue
    \/ QualityTick
    \/ GetQualityChecks

SpecQuality == InitQuality /\ [][NextQuality]_vars

(***************************************************************************)
(* C23: get_quality_checks returns exactly one row per active check of the *)
(* pipeline and no other row; the row carries the check's result with the  *)
(* greatest checked_at, or an empty result when the check was never        *)
(* evaluated.                                                              *)
(***************************************************************************)
C23_OneRowPerActiveCheck ==
    qualityReply.kind = "rows" =>
        /\ \A c \in DOMAIN data_quality_checks :
              LET rows == {row \in qualityReply.rows : row.check_id = c}
                  mine == {i \in DOMAIN quality_results : quality_results[i].check_id = c}
              IN  IF pipeline_name[data_quality_checks[c].pipeline_id] = qualityReply.pipeline
                     /\ data_quality_checks[c].is_active
                  THEN /\ Cardinality(rows) = 1
                       /\ \A row \in rows :
                             IF mine = {}
                             THEN row.last_result_status = "NULL" /\ row.actual_value = NULL
                             ELSE /\ row.result \in mine
                                  /\ row.last_result_status = quality_results[row.result].status
                                  /\ row.actual_value = quality_results[row.result].actual_value
                                  /\ \A j \in mine :
                                        quality_results[j].checked_at <= row.checked_at
                  ELSE rows = {}
        /\ \A row \in qualityReply.rows : row.check_id \in DOMAIN data_quality_checks

\* stg_orders has orders_amount_not_null with a seeded pass and a later fail,
\* which is the result shown, and a second check never evaluated
C23_Witness ==
    /\ qualityReply.kind = "rows"
    /\ qualityReply.pipeline = "stg_orders"
    /\ \E row \in qualityReply.rows :
          /\ row.check_id = 1
          /\ row.last_result_status = "fail"
          /\ \E i \in DOMAIN quality_results :
                /\ quality_results[i].check_id = 1
                /\ quality_results[i].status = "pass"
                /\ quality_results[i].checked_at < row.checked_at
    /\ \/ \E row \in qualityReply.rows : row.check_id = 2 /\ row.result = 0
       \/ ~data_quality_checks[2].is_active

(***************************************************************************)
(* C24: no quality result with status 'pass' is stored for a check whose   *)
(* threshold kind is not max_percent, min_count, max_age_hours or          *)
(* max_count.                                                              *)
(***************************************************************************)
C24_UnknownKindNeverPasses ==
    \A i \in DOMAIN quality_results :
        quality_results[i].status = "pass" =>
            data_quality_checks[quality_results[i].check_id].threshold_type \in KnownKinds

(***************************************************************************)
(* C27: every stored 'pass' result of a check with a known threshold kind  *)
(* has an actual value that meets the kind's pass condition: at most the   *)
(* threshold for max_percent, max_age_hours and max_count, at least the    *)
(* threshold for min_count.                                                *)
(***************************************************************************)
C27_SeededPassMeetsThreshold ==
    \A i \in DOMAIN quality_results :
        LET r == quality_results[i]
            check == data_quality_checks[r.check_id]
        IN  (r.status = "pass" /\ check.threshold_type \in KnownKinds) =>
                IF check.threshold_type = "min_count"
                THEN r.actual_value >= check.threshold_value
                ELSE r.actual_value <= check.threshold_value

(***************************************************************************)
(* Run history: the query of get_run_history over the run ledger.          *)
(***************************************************************************)
DefaultLimit == 10

\* the values of the limit argument
HistoryLimits == ((0 - 1)..(MaxRuns + 1)) \cup {DefaultLimit}

\* WHERE p.pipeline_name = %s ORDER BY pr.started_at DESC
RunsByRecency(name) ==
    LET mine == {r \in pipeline_runs :
                    \E p \in Pipelines : pipeline_name[p] = name /\ r.pipeline_id = p}
    IN  CHOOSE s \in [1..Cardinality(mine) -> mine] :
            /\ \A i, j \in DOMAIN s : i # j => s[i] # s[j]
            /\ \A i, j \in DOMAIN s : i < j => s[i].started_at > s[j].started_at

\* LIMIT %s: a negative count is an error of the statement
get_run_history(name, limit) ==
    IF limit < 0
    THEN [kind |-> "raised", pipeline |-> name, limit |-> limit, rows |-> <<>>]
    ELSE [kind |-> "rows", pipeline |-> name, limit |-> limit,
          rows |-> FirstN(RunsByRecency(name), limit)]

GetRunHistory ==
    /\ historyReply = NoReply
    /\ \E name \in PipelineArgs, limit \in HistoryLimits :
          historyReply' = get_run_history(name, limit)
    /\ UNCHANGED <<sandboxVars, auditVars, healthVars, schemaVars, fixVars, incidentVars,
                   schedVars, chatVars, dagVars, qualityVars, alertVars>>

\* the reply is read
HistoryReplyRead ==
    /\ historyReply # NoReply
    /\ historyReply' = NoReply
    /\ UNCHANGED <<sandboxVars, auditVars, healthVars, schemaVars, fixVars, incidentVars,
                   schedVars, chatVars, dagVars, qualityVars, alertVars>>

\* the ledger changes between calls, each call's reply being read first
LedgerChanges ==
    /\ historyReply = NoReply
    /\ (InsertRun \/ DeleteFailedRuns \/ ClockTick)

NextHistory == LedgerChanges \/ GetRunHistory \/ HistoryReplyRead

SpecHistory == InitHealth /\ [][NextHistory]_vars

(***************************************************************************)
(* C26: get_run_history(pipeline, limit) returns the limit most recent     *)
(* runs of the pipeline, most recent first (all runs if fewer exist); a    *)
(* limit below 1 is rejected, neither answered with rows nor left to       *)
(* raise.                                                                  *)
(***************************************************************************)
C26_HistoryLimit ==
    [][ (historyReply' # historyReply /\ historyReply' # NoReply) =>
            LET reply == historyReply'
                mine == {r \in pipeline_runs :
                            \E p \in Pipelines :
                                pipeline_name[p] = reply.pipeline /\ r.pipeline_id = p}
            IN  IF reply.limit < 1
                THEN reply.kind = "rejected"
                ELSE /\ reply.kind = "rows"
                     /\ Len(reply.rows) =
                            IF Cardinality(mine) < reply.limit
                            THEN Cardinality(mine) ELSE reply.limit
                     /\ \A i \in DOMAIN reply.rows :
                           /\ reply.rows[i] \in mine
                           /\ \A r \in mine :
                                 r.started_at > reply.rows[i].started_at =>
                                     \E j \in 1..(i - 1) : reply.rows[j] = r
      ]_vars

=============================================================================
